---- MODULE Spec2Model ----
(***************************************************************************)
(* Model of the conversation-history analyzer: the three transcript        *)
(* readers (backend/src/parsers/jsonl-parser.js), the aggregation passes   *)
(* and the recommendation engine (conversation-analyzer.js) and the        *)
(* server's conversation cache (server.js, multi-source version).          *)
(*                                                                         *)
(* JavaScript values are represented as follows.                           *)
(*   string            a TLA+ string, handled character by character       *)
(*                     with Len, SubSeq and \o                             *)
(*   array             a sequence                                          *)
(*   object used as a  a function whose DOMAIN is the set of keys; where   *)
(*   counter map       the iteration order of the keys matters, a sequence *)
(*                     of entries in insertion order                       *)
(*   message content   [kind, text, items]: kind "string" carries text,    *)
(*                     kind "array" carries items, kind "none" stands for  *)
(*                     a missing message / content (undefined or null)     *)
(*   content item      [type, name]; name "" stands for a missing name,    *)
(*                     type "null" for a JSON null inside the array        *)
(*   timestamp         the instant in milliseconds (an ISO-8601 string of  *)
(*                     fixed width orders and subtracts as its instant);   *)
(*                     NoTimestamp stands for a missing timestamp          *)
(***************************************************************************)
EXTENDS Integers, Sequences, FiniteSets, TLC

VARIABLES
  disk,                         \* the three source roots: path -> file
  call, arg, ret,               \* last exported function applied, its input, its result
  cachedConversations,          \* server cache (server.js, "let cached...")
  cachedConversationsBySource,
  cachedAnalytics,
  cachedAnalyticsBySource,
  cachedSchemaAll,
  cachedSchemaBySource,
  cachedFingerprint,
  lastLoadTime,
  generation,                   \* history: the load that assigned each cached value
  builtFrom,                    \* history: the fingerprint that load had observed
  now,                          \* the clock read by new Date()
  server,                       \* "starting", "listening" or "crashed"
  response                      \* last HTTP response sent

vars == <<disk, call, arg, ret, cachedConversations, cachedConversationsBySource,
          cachedAnalytics, cachedAnalyticsBySource, cachedSchemaAll,
          cachedSchemaBySource, cachedFingerprint, lastLoadTime, generation,
          builtFrom, now, server, response>>

cacheVars == <<cachedConversations, cachedConversationsBySource,
               cachedAnalytics, cachedAnalyticsBySource, cachedSchemaAll,
               cachedSchemaBySource, cachedFingerprint, lastLoadTime, generation,
               builtFrom>>

-----------------------------------------------------------------------------
(* Generic helpers: JavaScript built-ins used by the code.                  *)

RECURSIVE FoldSeq(_, _, _)
\* Array.prototype.forEach / reduce: left fold in index order.
FoldSeq(Op(_, _), acc, s) ==
  IF s = <<>> THEN acc
  ELSE CHOOSE result \in {FoldSeq(Op, next, Tail(s)) : next \in {Op(acc, Head(s))}} : TRUE

\* Array.prototype.filter
FilterSeq(s, Test(_)) ==
  FoldSeq(LAMBDA acc, e : IF Test(e) THEN Append(acc, e) ELSE acc, <<>>, s)

\* Array.prototype.map
MapSeq(s, F(_)) == [i \in 1..Len(s) |-> F(s[i])]

\* Array.prototype.slice(0, n)
Slice0(s, n) == SubSeq(s, 1, IF Len(s) < n THEN Len(s) ELSE n)

\* Array.prototype.flatMap over a sequence of sequences
Flatten(ss) == FoldSeq(LAMBDA acc, e : acc \o e, <<>>, ss)

RECURSIVE InsertSorted(_, _, _)
\* Insert e behind every element that does not sort after it.
InsertSorted(Cmp(_, _), s, e) ==
  IF s = <<>> THEN <<e>>
  ELSE IF Cmp(Head(s), e) <= 0 THEN <<Head(s)>> \o InsertSorted(Cmp, Tail(s), e)
  ELSE <<e>> \o s

\* Array.prototype.sort(compare): stable (ECMAScript 2019, V8 TimSort).
StableSort(s, Cmp(_, _)) ==
  FoldSeq(LAMBDA acc, e : InsertSorted(Cmp, acc, e), <<>>, s)

SumSeq(s) == FoldSeq(LAMBDA acc, e : acc + e, 0, s)

\* The empty object {}.
EmptyMap == [k \in {} |-> 0]

\* null / undefined where an object is expected.
Null == [null |-> TRUE]

\* counts[key] = (counts[key] || 0) + 1
incrementCount(counts, key) ==
  IF key \in DOMAIN counts THEN [counts EXCEPT ![key] = @ + 1]
  ELSE counts @@ (key :> 1)

\* counts[key] || 0
CountOf(counts, key) == IF key \in DOMAIN counts THEN counts[key] ELSE 0

\* The value of 0 / 0 and of Math.round(0 / 0); no JavaScript number equals it
\* and every comparison with it is false.
NaN == -1

\* Math.round((count / total) * 100)
Percentage(count, total) ==
  IF total = 0 THEN NaN ELSE (200 * count + total) \div (2 * total)

-----------------------------------------------------------------------------
(* Strings.                                                                 *)

Chr(s, i) == SubSeq(s, i, i)

\* String.prototype.includes
Includes(s, w) ==
  \E i \in 1..(Len(s) - Len(w) + 1) : SubSeq(s, i, i + Len(w) - 1) = w

\* String.prototype.startsWith / endsWith
StartsWith(s, w) == Len(w) <= Len(s) /\ SubSeq(s, 1, Len(w)) = w
EndsWith(s, w) == Len(w) <= Len(s) /\ SubSeq(s, Len(s) - Len(w) + 1, Len(s)) = w

\* String.prototype.substring(0, n)
Substring0(s, n) == SubSeq(s, 1, IF Len(s) < n THEN Len(s) ELSE n)

UpperChars == "ABCDEFGHIJKLMNOPQRSTUVWXYZ"
LowerChars == "abcdefghijklmnopqrstuvwxyz"

\* The lower-case letter of each upper-case letter.
LowerTable ==
  [c \in {Chr(UpperChars, i) : i \in 1..26} |->
     Chr(LowerChars, CHOOSE i \in 1..26 : Chr(UpperChars, i) = c)]

LowerOf(c) == IF c \in DOMAIN LowerTable THEN LowerTable[c] ELSE c

RECURSIVE LowerRange(_, _, _)
\* The characters lo..hi of s in lower case (halving keeps the nesting shallow).
LowerRange(s, lo, hi) ==
  IF lo > hi THEN ""
  ELSE IF lo = hi THEN LowerOf(Chr(s, lo))
  ELSE LET mid == (lo + hi) \div 2
       IN LowerRange(s, lo, mid) \o LowerRange(s, mid + 1, hi)

\* String.prototype.toLowerCase
ToLowerCase(s) == LowerRange(s, 1, Len(s))

RECURSIVE Repeat(_, _)
\* String.prototype.repeat: builds the long prompts of the input pool.
Repeat(s, n) ==
  IF n = 0 THEN ""
  ELSE LET half == Repeat(s, n \div 2)
       IN IF n % 2 = 0 THEN half \o half ELSE half \o half \o s

-----------------------------------------------------------------------------
(* The canonical conversation model.                                        *)

NoTimestamp == -1

StringContent(text) == [kind |-> "string", text |-> text, items |-> <<>>]
ArrayContent(items) == [kind |-> "array", text |-> "", items |-> items]
NoContent == [kind |-> "none", text |-> "", items |-> <<>>]

ToolUse(name) == [type |-> "tool_use", name |-> name]
TextItem == [type |-> "text", name |-> ""]
NullItem == [type |-> "null", name |-> ""]

Message(type, timestamp, content) ==
  [type |-> type, timestamp |-> timestamp, message |-> [content |-> content]]

\* Truthiness of msg.message?.content: a non-empty string or any array.
ContentTruthy(msg) ==
  \/ msg.message.content.kind = "array"
  \/ msg.message.content.kind = "string" /\ msg.message.content.text # ""

\* msg.type === 'assistant' && msg.message?.content && Array.isArray(content)
IsAssistantArray(msg) ==
  msg.type = "assistant" /\ ContentTruthy(msg) /\ msg.message.content.kind = "array"

\* conv.project || 'unknown'
ProjectName(conv) == IF conv.project = "" THEN "unknown" ELSE conv.project

\* item.type === 'tool_use' && item.name
IsNamedToolUse(item) == item.type = "tool_use" /\ item.name # ""

\* conv.messages.filter(m => m.type === 'user')
UserMessages(conv) == FilterSeq(conv.messages, LAMBDA m : m.type = "user")

-----------------------------------------------------------------------------
(* conversation-analyzer.js: the aggregation passes.                        *)

\* ToolUsageOfMessage without the msg.type === 'assistant' test.
ToolUsageOfAnyMessage(acc, projectName, msg) ==
  IF ContentTruthy(msg) /\ msg.message.content.kind = "array"
  THEN FoldSeq(LAMBDA a, item :
                 IF IsNamedToolUse(item)
                 THEN [overall |-> incrementCount(a.overall, item.name),
                       byProject |-> [a.byProject EXCEPT ![projectName] =
                                        incrementCount(@, item.name)]]
                 ELSE a,
               acc, msg.message.content.items)
  ELSE acc

\* The inner content.forEach of analyzeToolUsage for one message.
ToolUsageOfMessage(acc, projectName, msg) ==
  IF IsAssistantArray(msg)
  THEN FoldSeq(LAMBDA a, item :
                 IF IsNamedToolUse(item)
                 THEN [overall |-> incrementCount(a.overall, item.name),
                       byProject |-> [a.byProject EXCEPT ![projectName] =
                                        incrementCount(@, item.name)]]
                 ELSE a,
               acc, msg.message.content.items)
  ELSE acc

\* The body of conversations.forEach of analyzeToolUsage for one conversation.
ToolUsageOfConversation(acc, conv) ==
  LET projectName == ProjectName(conv)
      opened == IF projectName \in DOMAIN acc.byProject THEN acc
                ELSE [acc EXCEPT !.byProject = @ @@ (projectName :> EmptyMap)]
  IN FoldSeq(LAMBDA a, msg : ToolUsageOfMessage(a, projectName, msg),
             opened, conv.messages)

analyzeToolUsage(conversations) ==
  FoldSeq(ToolUsageOfConversation,
          [overall |-> EmptyMap, byProject |-> EmptyMap], conversations)

\* toolUseCount of analyzeConversationMetrics: every tool_use item, named or not.
ToolUseCount(conv) ==
  FoldSeq(LAMBDA n, msg :
            IF IsAssistantArray(msg)
            THEN n + Len(FilterSeq(msg.message.content.items,
                                   LAMBDA item : item.type = "tool_use"))
            ELSE n,
          0, conv.messages)

\* conv.messages.map(m => m.timestamp).filter(Boolean)
Timestamps(conv) ==
  FilterSeq(MapSeq(conv.messages, LAMBDA m : m.timestamp),
            LAMBDA t : t # NoTimestamp)

ConversationMetrics(conv) ==
  LET timestamps == Timestamps(conv)
      firstTimestamp == IF timestamps = <<>> THEN NoTimestamp ELSE timestamps[1]
      lastTimestamp == IF timestamps = <<>> THEN NoTimestamp
                       ELSE timestamps[Len(timestamps)]
  IN [conversationId |-> conv.conversationId,
      project |-> conv.project,
      messageCount |-> Len(conv.messages),
      userMessages |-> Len(UserMessages(conv)),
      assistantMessages |->
        Len(FilterSeq(conv.messages, LAMBDA m : m.type = "assistant")),
      toolUseCount |-> ToolUseCount(conv),
      duration |-> IF firstTimestamp # NoTimestamp /\ lastTimestamp # NoTimestamp
                   THEN lastTimestamp - firstTimestamp ELSE 0,
      timestamp |-> firstTimestamp]

analyzeConversationMetrics(conversations) ==
  MapSeq(conversations, ConversationMetrics)

\* const keywords = {...} of analyzeTaskPatterns
keywords ==
  [debugging |-> <<"fix", "error", "bug", "issue", "broken", "not working",
                   "debug", "failing", "crash">>,
   featureImplementation |-> <<"add", "create", "implement", "build",
                               "new feature", "functionality", "need to",
                               "want to">>,
   codeReview |-> <<"review", "look at", "analyze", "examine", "can you check">>,
   documentation |-> <<"document", "readme", "comment", "docs", "documentation">>,
   refactoring |-> <<"refactor", "improve", "optimize", "clean up",
                     "restructure", "reorganize">>,
   testing |-> <<"test", "testing", "unit test", "integration test">>,
   exploration |-> <<"how do", "how can", "what is", "what does", "explain",
                     "understand", "learn", "find", "search", "where">>,
   configuration |-> <<"config", "setup", "install", "configure", "settings">>,
   update |-> <<"update", "change", "modify", "edit", "replace", "remove">>,
   question |-> <<"?", "why", "when", "should", "could", "would">>]

\* priorityOrder with its first two groups exchanged.
priorityOrderFeatureFirst ==
  <<"featureImplementation", "debugging", "testing", "refactoring", "update",
    "configuration", "documentation", "codeReview", "exploration", "question">>

\* const priorityOrder = [...] of analyzeTaskPatterns
priorityOrder ==
  <<"debugging", "featureImplementation", "testing", "refactoring", "update",
    "configuration", "documentation", "codeReview", "exploration", "question">>

\* words.some(word => lowerContent.includes(word))
MatchesPattern(lowerContent, pattern) ==
  \E k \in 1..Len(keywords[pattern]) : Includes(lowerContent, keywords[pattern][k])

RECURSIVE FirstPatternFrom(_, _)
\* The for (const pattern of priorityOrder) loop with its break: the first
\* matching pattern from position i on, "" when the loop ends unmatched.
FirstPatternFrom(lowerContent, i) ==
  IF i > Len(priorityOrder) THEN ""
  ELSE IF MatchesPattern(lowerContent, priorityOrder[i]) THEN priorityOrder[i]
  ELSE FirstPatternFrom(lowerContent, i + 1)

\* The body of userMessages.forEach of analyzeTaskPatterns.
TaskPatternOfMessage(patterns, msg) ==
  IF msg.message.content.kind = "string"
  THEN LET pattern == FirstPatternFrom(ToLowerCase(msg.message.content.text), 1)
       IN IF pattern = "" THEN patterns
          ELSE [patterns EXCEPT ![pattern] = @ + 1]
  ELSE patterns

analyzeTaskPatterns(conversations) ==
  FoldSeq(LAMBDA acc, conv : FoldSeq(TaskPatternOfMessage, acc, UserMessages(conv)),
          [debugging |-> 0, featureImplementation |-> 0, codeReview |-> 0,
           documentation |-> 0, refactoring |-> 0, testing |-> 0,
           exploration |-> 0, configuration |-> 0, update |-> 0, question |-> 0],
          conversations)

\* PromptOfMessage with both bucket limits taken inclusively (<= 50, <= 200).
PromptOfMessageInclusive(acc, msg) ==
  LET content == msg.message.content
  IN IF content.kind = "string" /\ Len(content.text) > 0
     THEN LET counted == [acc EXCEPT !.totalPrompts = @ + 1,
                                     !.totalLength = @ + Len(content.text)]
          IN IF Len(content.text) <= 50
             THEN [counted EXCEPT !.shortPromptsCount = @ + 1]
             ELSE IF Len(content.text) <= 200
             THEN [counted EXCEPT !.mediumPromptsCount = @ + 1]
             ELSE [counted EXCEPT !.longPromptsCount = @ + 1]
     ELSE acc

\* The body of userMessages.forEach of analyzePromptingPatterns; the example
\* snippets it collects are local to the function and never returned.
PromptOfMessage(acc, msg) ==
  LET content == msg.message.content
  IN IF content.kind = "string" /\ Len(content.text) > 0
     THEN LET counted == [acc EXCEPT !.totalPrompts = @ + 1,
                                     !.totalLength = @ + Len(content.text)]
          IN IF Len(content.text) < 50
             THEN [counted EXCEPT !.shortPromptsCount = @ + 1]
             ELSE IF Len(content.text) < 200
             THEN [counted EXCEPT !.mediumPromptsCount = @ + 1]
             ELSE [counted EXCEPT !.longPromptsCount = @ + 1]
     ELSE acc

analyzePromptingPatterns(conversations) ==
  LET c == FoldSeq(LAMBDA acc, conv : FoldSeq(PromptOfMessage, acc, UserMessages(conv)),
                   [totalPrompts |-> 0, totalLength |-> 0, shortPromptsCount |-> 0,
                    mediumPromptsCount |-> 0, longPromptsCount |-> 0],
                   conversations)
      Bucket(count) ==
        [count |-> count,
         percentage |-> IF c.totalPrompts > 0 THEN Percentage(count, c.totalPrompts)
                        ELSE 0]
  IN [totalPrompts |-> c.totalPrompts,
      avgLength |-> IF c.totalPrompts > 0
                    THEN (2 * c.totalLength + c.totalPrompts) \div (2 * c.totalPrompts)
                    ELSE 0,
      distribution |-> [short |-> Bucket(c.shortPromptsCount),
                        medium |-> Bucket(c.mediumPromptsCount),
                        long |-> Bucket(c.longPromptsCount)]]

\* The body of conversations.forEach of analyzeConversationFlows.
FlowOfConversation(acc, conv) ==
  LET turnCount == Len(UserMessages(conv))
      pushed == [acc EXCEPT !.conversationLengths = Append(@, turnCount)]
  IN IF turnCount = 1 THEN [pushed EXCEPT !.singleTurnCount = @ + 1]
     ELSE IF turnCount <= 5 THEN [pushed EXCEPT !.shortConvCount = @ + 1]
     ELSE IF turnCount <= 15 THEN [pushed EXCEPT !.mediumConvCount = @ + 1]
     ELSE [pushed EXCEPT !.longConvCount = @ + 1]

\* avgTurnsPerConversation is Math.round(avgTurns * 10) / 10; the model keeps
\* the rounded number of tenths.
analyzeConversationFlows(conversations) ==
  LET c == FoldSeq(FlowOfConversation,
                   [singleTurnCount |-> 0, shortConvCount |-> 0,
                    mediumConvCount |-> 0, longConvCount |-> 0,
                    conversationLengths |-> <<>>],
                   conversations)
      n == Len(c.conversationLengths)
      Bucket(count) ==
        [count |-> count, percentage |-> Percentage(count, Len(conversations))]
  IN [avgTurnsPerConversation |->
        IF n > 0 THEN (20 * SumSeq(c.conversationLengths) + n) \div (2 * n) ELSE 0,
      distribution |-> [singleTurn |-> Bucket(c.singleTurnCount),
                        shortConversations |-> Bucket(c.shortConvCount),
                        mediumConversations |-> Bucket(c.mediumConvCount),
                        longConversations |-> Bucket(c.longConvCount)]]

\* const tools = [] filled by conv.messages.forEach in analyzeToolSequences.
ToolsOfConversation(conv) ==
  FoldSeq(LAMBDA tools, msg :
            IF IsAssistantArray(msg)
            THEN tools \o MapSeq(FilterSeq(msg.message.content.items, IsNamedToolUse),
                                 LAMBDA item : item.name)
            ELSE tools,
          <<>>, conv.messages)

\* `${tools[i]} → ${tools[i + 1]}`
SequenceKey(a, b) == a \o " → " \o b

\* sequences[seq] = (sequences[seq] || 0) + 1 on an object whose entries are
\* later read in insertion order.
IncrementEntry(entries, key) ==
  IF \E i \in 1..Len(entries) : entries[i].sequence = key
  THEN [i \in 1..Len(entries) |->
          IF entries[i].sequence = key
          THEN [entries[i] EXCEPT !.count = @ + 1] ELSE entries[i]]
  ELSE Append(entries, [sequence |-> key, count |-> 1])

\* SequencesOfConversation pairing every tool with every later tool of the
\* conversation instead of the next one only.
SequencesOfAllLaterPairs(sequences, conv) ==
  LET tools == ToolsOfConversation(conv)
  IN FoldSeq(LAMBDA acc, i :
               FoldSeq(LAMBDA acc2, j :
                         IncrementEntry(acc2, SequenceKey(tools[i], tools[i + j])),
                       acc, [j \in 1..(Len(tools) - i) |-> j]),
             sequences, [i \in 1..(Len(tools) - 1) |-> i])

\* The for loop over i < tools.length - 1 of one conversation.
SequencesOfConversation(sequences, conv) ==
  LET tools == ToolsOfConversation(conv)
  IN FoldSeq(LAMBDA acc, i : IncrementEntry(acc, SequenceKey(tools[i], tools[i + 1])),
             sequences, [i \in 1..(Len(tools) - 1) |-> i])

\* The sequences object of analyzeToolSequences after conversations.forEach.
ToolSequenceCounts(conversations) ==
  FoldSeq(SequencesOfConversation, <<>>, conversations)

\* analyzeToolSequences ordering pairs of equal count by last insertion first.
analyzeToolSequencesLastFirst(conversations) ==
  LET counts == ToolSequenceCounts(conversations)
  IN Slice0(StableSort([i \in 1..Len(counts) |-> counts[Len(counts) + 1 - i]],
                       LAMBDA a, b : b.count - a.count), 10)

analyzeToolSequences(conversations) ==
  Slice0(StableSort(ToolSequenceCounts(conversations),
                    LAMBDA a, b : b.count - a.count), 10)

Min(S) == CHOOSE x \in S : \A y \in S : x <= y
Max(S) == CHOOSE x \in S : \A y \in S : x >= y

\* The body of conversations.forEach of analyzeProjectActivity.
ActivityOfConversation(acc, conv) ==
  LET project == ProjectName(conv)
      opened == IF project \in DOMAIN acc THEN acc
                ELSE acc @@ (project :> [conversationCount |-> 0, messageCount |-> 0,
                                         timestamps |-> <<>>])
  IN [opened EXCEPT ![project] =
        [conversationCount |-> @.conversationCount + 1,
         messageCount |-> @.messageCount + Len(conv.messages),
         timestamps |-> @.timestamps \o Timestamps(conv)]]

\* firstActivity / lastActivity are the ends of the sorted timestamps and are
\* absent (NoTimestamp) for a project without timestamps.
analyzeProjectActivity(conversations) ==
  LET projectStats == FoldSeq(ActivityOfConversation, EmptyMap, conversations)
      Ends(stats) ==
        LET ts == {stats.timestamps[i] : i \in 1..Len(stats.timestamps)}
        IN [conversationCount |-> stats.conversationCount,
            messageCount |-> stats.messageCount,
            firstActivity |-> IF ts = {} THEN NoTimestamp ELSE Min(ts),
            lastActivity |-> IF ts = {} THEN NoTimestamp ELSE Max(ts)]
  IN [project \in DOMAIN projectStats |-> Ends(projectStats[project])]

-----------------------------------------------------------------------------
(* conversation-analyzer.js: the recommendation engine and the summary.     *)

\* a > b on JavaScript numbers either of which may be NaN.
JsGreater(a, b) == a # NaN /\ b # NaN /\ a > b

\* The reduce callback of avgToolsPerMessage: adds the conversation's
\* totalTools / toolCallMessages (0 without a tool-calling message) to the
\* sum, kept as the exact fraction num / den.
ToolsPerMessageStep(sum, conv) ==
  LET counts == FoldSeq(LAMBDA acc, msg :
                          IF IsAssistantArray(msg)
                          THEN LET tools == FilterSeq(msg.message.content.items,
                                                      LAMBDA item : item.type = "tool_use")
                               IN IF Len(tools) > 0
                                  THEN [toolCallMessages |-> acc.toolCallMessages + 1,
                                        totalTools |-> acc.totalTools + Len(tools)]
                                  ELSE acc
                          ELSE acc,
                        [toolCallMessages |-> 0, totalTools |-> 0], conv.messages)
  IN IF counts.toolCallMessages > 0
     THEN [num |-> sum.num * counts.toolCallMessages + counts.totalTools * sum.den,
           den |-> sum.den * counts.toolCallMessages]
     ELSE sum

\* avgToolsPerMessage < 1.5, where avgToolsPerMessage is the reduced sum
\* divided by conversations.length (0 / 0 is NaN and compares false).
AvgToolsPerMessageBelowThreshold(conversations) ==
  LET sum == FoldSeq(ToolsPerMessageStep, [num |-> 0, den |-> 1], conversations)
  IN /\ Len(conversations) > 0
     /\ 2 * sum.num < 3 * sum.den * Len(conversations)

Recommendation(type, title, priority) ==
  [type |-> type, title |-> title, priority |-> priority]

\* The recommendations array of generateRecommendations after the last
\* push and before the sort; insight and action texts are left out.
FiredRecommendations(conversations, toolUsage, taskPatterns, promptingPatterns, conversationFlows) ==
  LET readCount == CountOf(toolUsage.overall, "Read")
      editCount == CountOf(toolUsage.overall, "Edit")
      grepCount == CountOf(toolUsage.overall, "Grep")
      globCount == CountOf(toolUsage.overall, "Glob")
      taskCount == CountOf(toolUsage.overall, "Task")
      todoCount == CountOf(toolUsage.overall, "TodoWrite")
      longConvPercentage == conversationFlows.distribution.longConversations.percentage
      shortPromptPercentage == promptingPatterns.distribution.short.percentage
      debuggingCount == taskPatterns.debugging
      totalTasks == SumSeq([i \in 1..Len(priorityOrder) |-> taskPatterns[priorityOrder[i]]])
      When(cond, rec) == IF cond THEN <<rec>> ELSE <<>>
  IN When(grepCount > 50 /\ taskCount < 10,
          Recommendation("efficiency", "Use Task Agent for Complex Searches", "high"))
     \o When(JsGreater(longConvPercentage, 30) /\ todoCount < 50,
          Recommendation("workflow", "Track Complex Tasks with TodoWrite", "high"))
     \o When(readCount > 100 /\ editCount > 100 /\ 2 * readCount < 3 * editCount,
          Recommendation("efficiency", "Consider Batching Read Operations", "medium"))
     \o When(JsGreater(shortPromptPercentage, 40),
          Recommendation("prompting", "Provide More Context in Prompts", "medium"))
     \o When(readCount > 200 /\ globCount < 50,
          Recommendation("efficiency", "Use Glob for File Discovery", "medium"))
     \o When(10 * debuggingCount > 3 * totalTasks,
          Recommendation("workflow", "Debugging Strategy", "low"))
     \o When(AvgToolsPerMessageBelowThreshold(conversations)
               /\ (readCount > 100 \/ grepCount > 50),
          Recommendation("efficiency", "Request Parallel Operations", "high"))

\* const priorityOrder = { high: 0, medium: 1, low: 2 } of generateRecommendations
recommendationPriority == [high |-> 0, medium |-> 1, low |-> 2]

\* (a, b) => priorityOrder[a.priority] - priorityOrder[b.priority]
ComparePriority(a, b) ==
  recommendationPriority[a.priority] - recommendationPriority[b.priority]

\* generateRecommendations without the sort by priority.
generateRecommendationsUnsorted(conversations, toolUsage, taskPatterns, promptingPatterns, conversationFlows) ==
  Slice0(FiredRecommendations(conversations, toolUsage, taskPatterns,
                              promptingPatterns, conversationFlows), 5)

generateRecommendations(conversations, toolUsage, taskPatterns, promptingPatterns, conversationFlows) ==
  Slice0(StableSort(FiredRecommendations(conversations, toolUsage, taskPatterns,
                                         promptingPatterns, conversationFlows),
                    ComparePriority), 5)

\* avgMessagesPerConversation is kept as the rounded number of tenths;
\* totalMessages / 0 || 0 is 0.  Each const of the function is a bound
\* variable, so that each pass runs once per call.
generateSummary(conversations) ==
  CHOOSE summary \in
    {LET totalMessages == SumSeq([i \in 1..Len(metrics) |-> metrics[i].messageCount])
         totalToolUses == SumSeq([i \in 1..Len(metrics) |-> metrics[i].toolUseCount])
         n == Len(conversations)
     IN [overview |->
           [totalConversations |-> n,
            totalMessages |-> totalMessages,
            totalToolUses |-> totalToolUses,
            avgMessagesPerConversation |->
              IF n > 0 THEN (20 * totalMessages + n) \div (2 * n) ELSE 0,
            totalProjects |-> Cardinality(DOMAIN projectActivity)],
         toolUsage |-> toolUsage,
         conversationMetrics |-> Slice0(metrics, 20),
         taskPatterns |-> taskPatterns,
         projectActivity |-> projectActivity,
         recommendations |->
           generateRecommendations(conversations, toolUsage, taskPatterns,
                                   promptingPatterns, conversationFlows),
         promptingPatterns |-> promptingPatterns,
         conversationFlows |-> conversationFlows,
         toolSequences |-> toolSequences] :
       toolUsage \in {analyzeToolUsage(conversations)},
       metrics \in {analyzeConversationMetrics(conversations)},
       taskPatterns \in {analyzeTaskPatterns(conversations)},
       projectActivity \in {analyzeProjectActivity(conversations)},
       promptingPatterns \in {analyzePromptingPatterns(conversations)},
       conversationFlows \in {analyzeConversationFlows(conversations)},
       toolSequences \in {analyzeToolSequences(conversations)}} : TRUE

\* item.type read on a null content item raises a TypeError: the first pass
\* to reach it is analyzeToolUsage, which inspects every item of every
\* assistant message with array content.
SummaryThrows(conversations) ==
  \E c \in 1..Len(conversations) : \E m \in 1..Len(conversations[c].messages) :
    LET msg == conversations[c].messages[m]
    IN IsAssistantArray(msg)
       /\ \E i \in 1..Len(msg.message.content.items) :
            msg.message.content.items[i].type = "null"

-----------------------------------------------------------------------------
(* Strings and paths used by the readers.                                   *)

\* The characters of file names, in code-unit order.
CharOrder == " -./0123456789:ABCDEFGHIJKLMNOPQRSTUVWXYZ_abcdefghijklmnopqrstuvwxyz"

CharRank(c) == CHOOSE i \in 1..Len(CharOrder) : Chr(CharOrder, i) = c

RECURSIVE StringCompare(_, _)
\* The default comparison of Array.prototype.sort on strings: by code units.
StringCompare(a, b) ==
  IF a = "" /\ b = "" THEN 0
  ELSE IF a = "" THEN -1
  ELSE IF b = "" THEN 1
  ELSE IF Chr(a, 1) = Chr(b, 1)
       THEN StringCompare(SubSeq(a, 2, Len(a)), SubSeq(b, 2, Len(b)))
  ELSE IF CharRank(Chr(a, 1)) < CharRank(Chr(b, 1)) THEN -1 ELSE 1

Whitespace == {" ", "\n", "\t", "\r"}

\* String.prototype.trim
Trim(s) ==
  LET inked == {i \in 1..Len(s) : Chr(s, i) \notin Whitespace}
  IN IF inked = {} THEN "" ELSE SubSeq(s, Min(inked), Max(inked))

RECURSIVE SplitLines(_)
\* String.prototype.split('\n')
SplitLines(s) ==
  LET breaks == {i \in 1..Len(s) : Chr(s, i) = "\n"}
  IN IF breaks = {} THEN <<s>>
     ELSE <<SubSeq(s, 1, Min(breaks) - 1)>>
            \o SplitLines(SubSeq(s, Min(breaks) + 1, Len(s)))

\* Array.prototype.join('\n')
JoinLines(lines) ==
  IF lines = <<>> THEN ""
  ELSE FoldSeq(LAMBDA acc, line : acc \o "\n" \o line, Head(lines), Tail(lines))

RECURSIVE RemoveAll(_, _)
\* String.prototype.replace(/w/g, '')
RemoveAll(s, w) ==
  IF Len(s) < Len(w) THEN s
  ELSE IF StartsWith(s, w) THEN RemoveAll(SubSeq(s, Len(w) + 1, Len(s)), w)
  ELSE Chr(s, 1) \o RemoveAll(SubSeq(s, 2, Len(s)), w)

\* String.prototype.replace(w, ''): the first occurrence only.
RemoveFirst(s, w) ==
  LET at == {i \in 1..(Len(s) - Len(w) + 1) : SubSeq(s, i, i + Len(w) - 1) = w}
  IN IF at = {} THEN s
     ELSE SubSeq(s, 1, Min(at) - 1) \o SubSeq(s, Min(at) + Len(w), Len(s))

\* path.join of the segments of a path below the home directory.
JoinPath(path) ==
  FoldSeq(LAMBDA acc, segment : acc \o "/" \o segment, "", path)

\* path.basename(filePath, ext)
Basename(path, ext) ==
  LET name == path[Len(path)]
  IN IF EndsWith(name, ext) /\ name # ext
     THEN SubSeq(name, 1, Len(name) - Len(ext)) ELSE name

\* Array.prototype.sort() of an array of path strings.
SortPaths(paths) ==
  StableSort(paths, LAMBDA a, b : StringCompare(JoinPath(a), JoinPath(b)))

RECURSIVE Ascending(_)
\* The names of a set in ascending order.
Ascending(names) ==
  IF names = {} THEN <<>>
  ELSE LET least == CHOOSE x \in names : \A y \in names : StringCompare(x, y) <= 0
       IN <<least>> \o Ascending(names \ {least})

Reverse(s) == [i \in 1..Len(s) |-> s[Len(s) + 1 - i]]

-----------------------------------------------------------------------------
(* jsonl-parser.js: the file system the readers scan.  A disk maps a path   *)
(* (the sequence of its segments below the home directory) to a regular    *)
(* file [readable, mtime, size, lines, text]: lines are the lines of a     *)
(* .jsonl file, text the characters of a .txt file.  A directory exists    *)
(* where a file lies below it.                                             *)

CLAUDE_DIR == <<".claude">>
PROJECTS_DIR == CLAUDE_DIR \o <<"projects">>
CODEX_SESSIONS_DIR == <<".codex", "sessions">>
CURSOR_PROJECTS_DIR == <<".cursor", "projects">>

\* One line of a .jsonl file, by what parseJSONL makes of it.
BlankLine == [kind |-> "blank", value |-> Null]       \* line.trim() is empty
GarbageLine == [kind |-> "garbage", value |-> Null]   \* JSON.parse throws
FalsyLine == [kind |-> "falsy", value |-> Null]       \* parses to null, false, 0 or ""
JsonLine(value) == [kind |-> "json", value |-> value] \* parses to an object

JsonlFile(mtime, size, lines) ==
  [readable |-> TRUE, mtime |-> mtime, size |-> size, lines |-> lines, text |-> ""]

TextFile(mtime, text) ==
  [readable |-> TRUE, mtime |-> mtime, size |-> Len(text), lines |-> <<>>, text |-> text]

\* A file whose read fails (EACCES).
Unreadable(file) == [file EXCEPT !.readable = FALSE]

IsUnder(dir, path) == Len(dir) < Len(path) /\ SubSeq(path, 1, Len(dir)) = dir

\* fs.existsSync
existsSync(d, path) == path \in DOMAIN d \/ \E p \in DOMAIN d : IsUnder(path, p)

\* fs.statSync(path).isDirectory() / Dirent.isDirectory()
isDirectory(d, path) == \E p \in DOMAIN d : IsUnder(path, p)

\* The orders in which fs.readdirSync may list a directory.
ListingOrders == {"ascending", "descending"}

\* fs.readdirSync(dir): the names of the entries of dir.
readdirSync(d, dir, listing) ==
  LET names == {p[Len(dir) + 1] : p \in {q \in DOMAIN d : IsUnder(dir, q)}}
  IN IF listing = "ascending" THEN Ascending(names) ELSE Reverse(Ascending(names))

parseJSONL(d, filePath) ==
  IF filePath \notin DOMAIN d \/ ~d[filePath].readable THEN <<>>
  ELSE LET lines == FilterSeq(d[filePath].lines, LAMBDA line : line.kind # "blank")
           parsed == MapSeq(lines, LAMBDA line :
                              IF line.kind = "json" THEN line.value ELSE Null)
       IN FilterSeq(parsed, LAMBDA value : value # Null)

getProjectDirs(d, listing) ==
  IF ~existsSync(d, PROJECTS_DIR) THEN <<>>
  ELSE FilterSeq(readdirSync(d, PROJECTS_DIR, listing),
                 LAMBDA name : isDirectory(d, Append(PROJECTS_DIR, name)))

\* The conversations of the <sessionId>/subagents/*.jsonl files of one session.
SubagentConversations(d, listing, projectPath, parentSessionId) ==
  LET subagentsPath == projectPath \o <<parentSessionId, "subagents">>
  IN IF ~existsSync(d, subagentsPath) THEN <<>>
     ELSE MapSeq(FilterSeq(readdirSync(d, subagentsPath, listing),
                           LAMBDA file : EndsWith(file, ".jsonl")),
                 LAMBDA file :
                   [conversationId |->
                      parentSessionId \o "__" \o RemoveFirst(file, ".jsonl"),
                    parentConversationId |-> parentSessionId,
                    path |-> Append(subagentsPath, file),
                    messages |-> parseJSONL(d, Append(subagentsPath, file)),
                    source |-> "subagent",
                    platform |-> "claude"])

getProjectConversations(d, listing, projectName) ==
  LET projectPath == Append(PROJECTS_DIR, projectName)
      topLevelFiles == FilterSeq(readdirSync(d, projectPath, listing),
                                 LAMBDA file : EndsWith(file, ".jsonl"))
      mainConversations ==
        MapSeq(topLevelFiles, LAMBDA file :
                 [conversationId |-> RemoveFirst(file, ".jsonl"),
                  path |-> Append(projectPath, file),
                  messages |-> parseJSONL(d, Append(projectPath, file)),
                  source |-> "main",
                  platform |-> "claude"])
      sessions == FilterSeq(readdirSync(d, projectPath, listing),
                            LAMBDA name : isDirectory(d, Append(projectPath, name)))
  IN IF ~existsSync(d, projectPath) THEN <<>>
     ELSE mainConversations
            \o Flatten(MapSeq(sessions, LAMBDA name :
                                SubagentConversations(d, listing, projectPath, name)))

getConversationFiles(d, listing) ==
  LET FilesOfProject(project) ==
        LET projectPath == Append(PROJECTS_DIR, project)
            topLevelFiles ==
              MapSeq(FilterSeq(readdirSync(d, projectPath, listing),
                               LAMBDA file : EndsWith(file, ".jsonl")),
                     LAMBDA file : Append(projectPath, file))
            sessions == FilterSeq(readdirSync(d, projectPath, listing),
                                  LAMBDA name : isDirectory(d, Append(projectPath, name)))
            SubagentFiles(name) ==
              LET subagentsPath == projectPath \o <<name, "subagents">>
              IN MapSeq(FilterSeq(readdirSync(d, subagentsPath, listing),
                                  LAMBDA file : EndsWith(file, ".jsonl")),
                        LAMBDA file : Append(subagentsPath, file))
        IN topLevelFiles \o Flatten(MapSeq(sessions, SubagentFiles))
  IN SortPaths(Flatten(MapSeq(getProjectDirs(d, listing), FilesOfProject)))

getAllConversations(d, listing) ==
  Flatten(MapSeq(getProjectDirs(d, listing), LAMBDA project :
                   MapSeq(getProjectConversations(d, listing, project),
                          LAMBDA conv : [project |-> project] @@ conv)))

RECURSIVE PathsAscending(_)
\* The paths of a set in the order of Array.prototype.sort().
PathsAscending(paths) ==
  IF paths = {} THEN <<>>
  ELSE LET least == CHOOSE x \in paths :
                      \A y \in paths : StringCompare(JoinPath(x), JoinPath(y)) <= 0
       IN <<least>> \o PathsAscending(paths \ {least})

\* walk(rootDir) collects every regular file below rootDir that the matcher
\* accepts; results.sort() orders them.  The matcher is given as the set of
\* the paths it accepts.
walkFilesRecursively(d, rootDir, matcher) ==
  IF ~existsSync(d, rootDir) THEN <<>>
  ELSE PathsAscending({p \in DOMAIN d : IsUnder(rootDir, p) /\ p \in matcher})

getCodexSessionFiles(d) ==
  walkFilesRecursively(d, CODEX_SESSIONS_DIR,
                       {filePath \in DOMAIN d : EndsWith(JoinPath(filePath), ".jsonl")})

\* The content of a Codex payload: [kind, text, items] as for a message; an
\* item is [key, value], key naming the field that holds its text ("text",
\* "input_text", "output_text") or "none".
CodexItem(key, value) == [key |-> key, value |-> value]

extractTextFromCodexContent(content) ==
  IF content.kind = "string" THEN Trim(content.text)
  ELSE IF content.kind # "array" THEN ""
  ELSE LET parts == MapSeq(content.items, LAMBDA item :
                             IF item.key \in {"text", "input_text", "output_text"}
                             THEN item.value ELSE "")
       IN Trim(JoinLines(FilterSeq(parts, LAMBDA part : part # "")))

\* A payload with none of the fields the reader looks at; "" stands for a
\* missing field.
EmptyPayload ==
  [type |-> "", role |-> "", content |-> NoContent, name |-> "", id |-> "",
   cwd |-> "", cli_version |-> "", model_provider |-> "", originator |-> "",
   source |-> ""]

Payload(fields) == fields @@ EmptyPayload

\* One record of a Codex session file.
CodexEntry(type, timestamp, payload) ==
  [type |-> type, timestamp |-> timestamp, payload |-> payload]

\* x || null
OrNull(x) == IF x = "" THEN Null ELSE x

\* x || 'unknown'
OrUnknown(x) == IF x = "" THEN "unknown" ELSE x

\* The messages pushed by the body of entries.forEach for one entry.
\* The body of entries.forEach without the test of the record type.
CodexMessagesOfEntryOfAnyType(entry, fallbackTimestamp) ==
  LET timestamp == IF entry.timestamp = NoTimestamp THEN fallbackTimestamp
                   ELSE entry.timestamp
      payload == entry.payload
      messageType == IF payload.role = "user" THEN "user"
                     ELSE IF payload.role = "assistant" THEN "assistant"
                     ELSE "system"
      text == extractTextFromCodexContent(payload.content)
  IN IF payload.type = "message"
     THEN IF text # "" THEN <<Message(messageType, timestamp, StringContent(text))>>
          ELSE <<>>
     ELSE IF payload.type \in {"function_call", "custom_tool_call"} /\ payload.name # ""
     THEN <<Message("assistant", timestamp, ArrayContent(<<ToolUse(payload.name)>>))>>
     ELSE <<>>

CodexMessagesOfEntry(entry, fallbackTimestamp) ==
  LET timestamp == IF entry.timestamp = NoTimestamp THEN fallbackTimestamp
                   ELSE entry.timestamp
      payload == entry.payload
      messageType == IF payload.role = "user" THEN "user"
                     ELSE IF payload.role = "assistant" THEN "assistant"
                     ELSE "system"
      text == extractTextFromCodexContent(payload.content)
  IN IF entry.type # "response_item" THEN <<>>
     ELSE IF payload.type = "message"
     THEN IF text # "" THEN <<Message(messageType, timestamp, StringContent(text))>>
          ELSE <<>>
     ELSE IF payload.type \in {"function_call", "custom_tool_call"} /\ payload.name # ""
     THEN <<Message("assistant", timestamp, ArrayContent(<<ToolUse(payload.name)>>))>>
     ELSE <<>>

parseCodexSession(d, filePath) ==
  LET entries == parseJSONL(d, filePath)
      fallbackTimestamp == d[filePath].mtime
      metas == {i \in 1..Len(entries) : entries[i].type = "session_meta"}
      sessionPayload == IF metas = {} THEN EmptyPayload ELSE entries[Min(metas)].payload
      messages == Flatten(MapSeq(entries, LAMBDA entry :
                                   CodexMessagesOfEntry(entry, fallbackTimestamp)))
      recordTypeCounts ==
        FoldSeq(LAMBDA acc, entry :
                  incrementCount(acc, IF entry.type = "" THEN "undefined" ELSE entry.type),
                EmptyMap, entries)
      responseItemTypeCounts ==
        FoldSeq(LAMBDA acc, entry :
                  IF entry.type = "response_item"
                  THEN incrementCount(acc, OrUnknown(entry.payload.type)) ELSE acc,
                EmptyMap, entries)
      eventTypeCounts ==
        FoldSeq(LAMBDA acc, entry :
                  IF entry.type = "event_msg"
                  THEN incrementCount(acc, OrUnknown(entry.payload.type)) ELSE acc,
                EmptyMap, entries)
  IN IF entries = <<>> THEN Null
     ELSE [conversationId |-> IF sessionPayload.id = "" THEN Basename(filePath, ".jsonl")
                              ELSE sessionPayload.id,
           project |-> OrUnknown(sessionPayload.cwd),
           path |-> filePath,
           source |-> "main",
           platform |-> "codex",
           messages |-> IF messages = <<>>
                        THEN <<Message("system", fallbackTimestamp,
                                       StringContent("Session metadata only"))>>
                        ELSE messages,
           metadata |-> [cliVersion |-> OrNull(sessionPayload.cli_version),
                         modelProvider |-> OrNull(sessionPayload.model_provider),
                         originator |-> OrNull(sessionPayload.originator),
                         sourceClient |-> OrNull(sessionPayload.source),
                         recordTypeCounts |-> recordTypeCounts,
                         responseItemTypeCounts |-> responseItemTypeCounts,
                         eventTypeCounts |-> eventTypeCounts]]

getCodexConversations(d) ==
  FilterSeq(MapSeq(getCodexSessionFiles(d), LAMBDA filePath : parseCodexSession(d, filePath)),
            LAMBDA conv : conv # Null)

getCursorTranscriptFiles(d) ==
  walkFilesRecursively(d, CURSOR_PROJECTS_DIR,
                       {filePath \in DOMAIN d :
                          /\ Includes(JoinPath(filePath), "/agent-transcripts/")
                          /\ EndsWith(JoinPath(filePath), ".txt")})

normalizeCursorText(text) ==
  Trim(RemoveAll(RemoveAll(text, "<user_query>"), "</user_query>"))

\* flush() without the trim of the joined buffer.
FlushBlockUntrimmed(scan) ==
  IF scan.role = "" THEN scan
  ELSE LET text == JoinLines(scan.buffer)
       IN [role |-> scan.role,
           buffer |-> <<>>,
           blocks |-> IF text # "" THEN Append(scan.blocks, [role |-> scan.role, text |-> text])
                      ELSE scan.blocks]

\* flush() of parseCursorTranscriptBlocks on the scan state [role, buffer, blocks].
FlushBlock(scan) ==
  IF scan.role = "" THEN scan
  ELSE LET text == Trim(JoinLines(scan.buffer))
       IN [role |-> scan.role,
           buffer |-> <<>>,
           blocks |-> IF text # "" THEN Append(scan.blocks, [role |-> scan.role, text |-> text])
                      ELSE scan.blocks]

parseCursorTranscriptBlocks(content) ==
  LET Step(scan, line) ==
        IF Trim(line) = "user:" THEN [FlushBlock(scan) EXCEPT !.role = "user"]
        ELSE IF Trim(line) = "assistant:" THEN [FlushBlock(scan) EXCEPT !.role = "assistant"]
        ELSE IF scan.role # "" THEN [scan EXCEPT !.buffer = Append(@, line)]
        ELSE scan
  IN FlushBlock(FoldSeq(Step, [role |-> "", buffer |-> <<>>, blocks |-> <<>>],
                        SplitLines(content))).blocks

\* The characters of [A-Za-z0-9_.-]
ToolNameChars ==
  {Chr(CharOrder, i) : i \in 1..Len(CharOrder)} \ {" ", "/"}

RECURSIVE SkipWhile(_, _, _)
\* The first position from i on whose character is not in the class.
SkipWhile(s, i, class) ==
  IF i <= Len(s) /\ Chr(s, i) \in class THEN SkipWhile(s, i + 1, class) ELSE i

RECURSIVE ToolCallMatches(_, _)
\* The names captured by matchAll(/\[Tool call\]\s*([A-Za-z0-9_.-]+)/g) from position i on.
ToolCallMatches(s, i) ==
  IF i > Len(s) THEN <<>>
  ELSE IF i + 10 <= Len(s) /\ SubSeq(s, i, i + 10) = "[Tool call]"
  THEN LET from == SkipWhile(s, i + 11, Whitespace)
           to == SkipWhile(s, from, ToolNameChars)
       IN IF to > from THEN <<SubSeq(s, from, to - 1)>> \o ToolCallMatches(s, to)
          ELSE ToolCallMatches(s, i + 1)
  ELSE ToolCallMatches(s, i + 1)

\* The messages pushed by the body of blocks.forEach for the block at the
\* (0-based) index.
CursorMessagesOfBlock(block, index, mtimeMs) ==
  LET timestamp == mtimeMs + index
      normalizedText == normalizeCursorText(block.text)
      toolCallMatches == IF block.role = "assistant"
                         THEN ToolCallMatches(normalizedText, 1) ELSE <<>>
      plainText ==
        Trim(JoinLines(FilterSeq(SplitLines(normalizedText), LAMBDA line :
                                   /\ ~StartsWith(line, "[Tool call]")
                                   /\ ~StartsWith(line, "[Tool result]"))))
  IN [toolIndex \in 1..Len(toolCallMatches) |->
        Message("assistant", mtimeMs + index + (toolIndex - 1) + 1,
                ArrayContent(<<ToolUse(toolCallMatches[toolIndex])>>))]
       \o (IF plainText # "" THEN <<Message(block.role, timestamp, StringContent(plainText))>>
           ELSE <<>>)

parseCursorTranscript(d, filePath) ==
  LET stats == d[filePath]
      projectAt == {i \in 1..(Len(filePath) - 1) : filePath[i] = "projects"}
      project == IF projectAt = {} THEN "unknown" ELSE OrUnknown(filePath[Min(projectAt) + 1])
      blocks == parseCursorTranscriptBlocks(stats.text)
      messages == Flatten([i \in 1..Len(blocks) |->
                             CursorMessagesOfBlock(blocks[i], i - 1, stats.mtime)])
      toolCallCount ==
        SumSeq([i \in 1..Len(blocks) |->
                  IF blocks[i].role = "assistant"
                  THEN Len(ToolCallMatches(normalizeCursorText(blocks[i].text), 1))
                  ELSE 0])
  IN IF ~stats.readable THEN Null
     ELSE [conversationId |-> Basename(filePath, ".txt"),
           project |-> project,
           path |-> filePath,
           source |-> "main",
           platform |-> "cursor",
           messages |-> IF messages = <<>>
                        THEN <<Message("system", stats.mtime,
                                       StringContent("Transcript metadata only"))>>
                        ELSE messages,
           metadata |-> [blockCount |-> Len(blocks),
                         toolCallCount |-> toolCallCount,
                         fileSizeBytes |-> stats.size]]

getCursorConversations(d) ==
  FilterSeq(MapSeq(getCursorTranscriptFiles(d),
                   LAMBDA filePath : parseCursorTranscript(d, filePath)),
            LAMBDA conv : conv # Null)

getAllConversationsBySource(d, listing) ==
  [claude |-> getAllConversations(d, listing),
   codex |-> getCodexConversations(d),
   cursor |-> getCursorConversations(d)]

\* The SHA-1 digest is represented by the characters it was fed, the
\* `path:size:mtimeMs` strings of the successive hash.update calls one after
\* the other: two digests are equal exactly when they were fed the same
\* characters.
getConversationsFingerprint(d, listing) ==
  LET files == getConversationFiles(d, listing) \o getCodexSessionFiles(d)
                 \o getCursorTranscriptFiles(d)
  IN IF files = <<>> THEN [kind |-> "empty", fed |-> ""]
     ELSE [kind |-> "sha1",
           fed |-> FoldSeq(LAMBDA hash, filePath :
                             hash \o JoinPath(filePath) \o ":"
                                  \o ToString(d[filePath].size) \o ":"
                                  \o ToString(d[filePath].mtime),
                           "", files)]

-----------------------------------------------------------------------------
(* server.js: the schema snapshot.  A count object is kept as the sequence  *)
(* of its {name, count} entries in insertion order, the order in which     *)
(* Object.entries lists them.                                              *)

SourcesCursorFirst == <<"cursor", "codex", "claude">>

SOURCES == <<"claude", "codex", "cursor">>

\* incrementCount(counts, key) on a count object
IncrementNamed(entries, key) ==
  IF \E i \in 1..Len(entries) : entries[i].name = key
  THEN [i \in 1..Len(entries) |->
          IF entries[i].name = key
          THEN [entries[i] EXCEPT !.count = @ + 1] ELSE entries[i]]
  ELSE Append(entries, [name |-> key, count |-> 1])

sortCountMap(counts) == StableSort(counts, LAMBDA a, b : b.count - a.count)

\* Object.keys(conv): the keys in the order the readers write them.
ConversationKeys(conv) ==
  IF conv.platform = "claude"
  THEN IF conv.source = "subagent"
       THEN <<"conversationId", "parentConversationId", "path", "messages",
              "source", "platform", "project">>
       ELSE <<"conversationId", "path", "messages", "source", "platform", "project">>
  ELSE <<"conversationId", "project", "path", "source", "platform", "messages",
         "metadata">>

\* Object.keys(conv.metadata); only Codex and Cursor conversations carry metadata.
MetadataKeys(conv) ==
  IF conv.platform = "codex"
  THEN <<"cliVersion", "modelProvider", "originator", "sourceClient",
         "recordTypeCounts", "responseItemTypeCounts", "eventTypeCounts">>
  ELSE IF conv.platform = "cursor"
  THEN <<"blockCount", "toolCallCount", "fileSizeBytes">>
  ELSE <<>>

\* Object.keys(msg) for the fields of a message that the model carries.
MessageKeys(msg) ==
  (IF msg.type # "" THEN <<"type">> ELSE <<>>)
    \o (IF msg.timestamp # NoTimestamp THEN <<"timestamp">> ELSE <<>>)
    \o (IF msg.message.content.kind # "none" THEN <<"message">> ELSE <<>>)

\* The body of conv.messages.forEach of createSourceSchema.
SchemaOfMessage(acc, msg) ==
  LET content == msg.message.content
      shape == IF content.kind = "string" THEN "string"
               ELSE IF content.kind = "array" THEN "array"
               ELSE "nullish"
      items == IF content.kind = "array" THEN content.items ELSE <<>>
  IN [acc EXCEPT
        !.messageCount = @ + 1,
        !.messageFields = FoldSeq(IncrementNamed, @, MessageKeys(msg)),
        !.messageTypes = IncrementNamed(@, OrUnknown(msg.type)),
        !.contentShapes = IncrementNamed(@, shape),
        !.contentItemTypes =
           FoldSeq(LAMBDA counts, item :
                     IF item.type # "null" /\ item.type # ""
                     THEN IncrementNamed(counts, item.type) ELSE counts,
                   @, items),
        !.toolNames =
           FoldSeq(LAMBDA counts, item :
                     IF item.type = "tool_use" /\ item.name # ""
                     THEN IncrementNamed(counts, item.name) ELSE counts,
                   @, items)]

\* The body of conversations.forEach of createSourceSchema.
SchemaOfConversation(acc, conv) ==
  FoldSeq(SchemaOfMessage,
          [acc EXCEPT
             !.conversationFields = FoldSeq(IncrementNamed, @, ConversationKeys(conv)),
             !.metadataFields = FoldSeq(IncrementNamed, @, MetadataKeys(conv))],
          conv.messages)

createSourceSchema(source, conversations) ==
  LET counts == FoldSeq(SchemaOfConversation,
                        [messageCount |-> 0, conversationFields |-> <<>>,
                         metadataFields |-> <<>>, messageFields |-> <<>>,
                         messageTypes |-> <<>>, contentShapes |-> <<>>,
                         contentItemTypes |-> <<>>, toolNames |-> <<>>],
                        conversations)
  IN [source |-> source,
      conversationCount |-> Len(conversations),
      messageCount |-> counts.messageCount,
      conversationFields |-> sortCountMap(counts.conversationFields),
      metadataFields |-> sortCountMap(counts.metadataFields),
      messageFields |-> sortCountMap(counts.messageFields),
      messageTypes |-> sortCountMap(counts.messageTypes),
      contentShapes |-> sortCountMap(counts.contentShapes),
      contentItemTypes |-> sortCountMap(counts.contentItemTypes),
      toolNames |-> sortCountMap(counts.toolNames),
      uniqueConversationFields |-> <<>>,
      uniqueMetadataFields |-> <<>>,
      uniqueMessageFields |-> <<>>]

\* selector(...).map(item => item.name) as a set; a selector schema =>
\* schema.<field> is given as the name of the field it selects.
NamesOf(entries) == {entries[i].name : i \in 1..Len(entries)}

\* createUniqueFieldList without the filter on the other sources' fields.
createUniqueFieldListUnfiltered(rawBySource, source, selector) ==
  Ascending(NamesOf(rawBySource[source][selector]))

createUniqueFieldList(rawBySource, source, selector) ==
  LET ownFields == NamesOf(rawBySource[source][selector])
      otherFields == UNION {NamesOf(rawBySource[SOURCES[i]][selector]) :
                            i \in {j \in 1..Len(SOURCES) : SOURCES[j] # source}}
  IN Ascending(ownFields \ otherFields)

\* rawBySource is a bound variable, so that each schema is built once.
buildSchemaSnapshot(conversationsBySource, allConversations) ==
  CHOOSE snapshot \in
    {[bySource |->
        [source \in DOMAIN rawBySource |->
           [rawBySource[source] EXCEPT
              !.uniqueConversationFields =
                 createUniqueFieldList(rawBySource, source, "conversationFields"),
              !.uniqueMetadataFields =
                 createUniqueFieldList(rawBySource, source, "metadataFields"),
              !.uniqueMessageFields =
                 createUniqueFieldList(rawBySource, source, "messageFields")]],
      all |-> createSourceSchema("all", allConversations)] :
       rawBySource \in {[source \in {SOURCES[i] : i \in 1..Len(SOURCES)} |->
                           createSourceSchema(source, conversationsBySource[source])]}} : TRUE

-----------------------------------------------------------------------------
(* server.js: the conversation cache.  Node runs one handler at a time and  *)
(* loadConversations is synchronous, so a load is one step; it ends early,  *)
(* keeping the assignments already made, when generateSummary throws.       *)

\* The load (numbered by the clock) that last assigned each cached value;
\* 0 is the module-level declaration.
NeverLoaded ==
  [conversationsBySource |-> 0, conversations |-> 0, analyticsBySource |-> 0,
   analytics |-> 0, schema |-> 0, fingerprint |-> 0, lastLoadTime |-> 0]

\* What the parser returns to one call of loadConversations: the fingerprint
\* and the conversations by source, flattened in the order of SOURCES, for
\* each order in which readdir may list a directory.
DiskReads ==
  UNION {{[currentFingerprint |-> getConversationsFingerprint(disk, listing),
           bySource |-> bySource,
           all |-> Flatten(MapSeq(SOURCES, LAMBDA source : bySource[source]))] :
          bySource \in {getAllConversationsBySource(disk, listing)}} :
         listing \in ListingOrders}

\* What loadConversations({force}) reads and decides before it assigns
\* anything: "fresh" returns false, "loaded" returns true, "threw" lets the
\* TypeError of generateSummary escape.
LoadAttempt(force, read) ==
  IF ~force /\ cachedFingerprint = read.currentFingerprint
  THEN [outcome |-> "fresh", currentFingerprint |-> read.currentFingerprint,
        bySource |-> EmptyMap, all |-> <<>>]
  ELSE [outcome |-> IF SummaryThrows(read.all) THEN "threw" ELSE "loaded",
        currentFingerprint |-> read.currentFingerprint,
        bySource |-> read.bySource, all |-> read.all]

\* The assignments of loadConversations for an attempt.
loadConversations(attempt) ==
  LET load == now + 1
  IN IF attempt.outcome = "fresh" THEN UNCHANGED cacheVars
     ELSE /\ cachedConversationsBySource' = attempt.bySource
          /\ cachedConversations' = attempt.all
          /\ IF attempt.outcome = "threw"
             THEN /\ generation' = [generation EXCEPT !.conversationsBySource = load,
                                                      !.conversations = load]
                  /\ builtFrom' =
                       [builtFrom EXCEPT
                          !.conversationsBySource = attempt.currentFingerprint,
                          !.conversations = attempt.currentFingerprint]
                  /\ UNCHANGED <<cachedAnalytics, cachedAnalyticsBySource,
                                 cachedSchemaAll, cachedSchemaBySource,
                                 cachedFingerprint, lastLoadTime>>
             ELSE \E schemaSnapshot \in {buildSchemaSnapshot(attempt.bySource, attempt.all)} :
                  /\ cachedAnalyticsBySource' =
                       [source \in DOMAIN attempt.bySource |->
                          generateSummary(attempt.bySource[source])]
                  /\ cachedAnalytics' = generateSummary(attempt.all)
                  /\ cachedSchemaBySource' = schemaSnapshot.bySource
                  /\ cachedSchemaAll' = schemaSnapshot.all
                  /\ cachedFingerprint' = attempt.currentFingerprint
                  /\ lastLoadTime' = load
                  /\ generation' = [field \in DOMAIN generation |-> load]
                  /\ builtFrom' =
                       [field \in DOMAIN builtFrom |-> attempt.currentFingerprint]

\* normalizeSource
normalizeSource(source) ==
  IF source = "" \/ source = "all" THEN "all" ELSE ToLowerCase(source)

IsSource(source) == \E i \in 1..Len(SOURCES) : SOURCES[i] = source

\* getConversationsForSource / getAnalyticsForSource read after the middleware
\* has run, hence from the primed cache.
JsonResponse(status, body) == [status |-> status, body |-> body]

LoadFailedResponse == JsonResponse(500, [error |-> "Failed to load conversation data"])

-----------------------------------------------------------------------------
(* Bounded inputs of the aggregation passes.                                *)

MaxConversations == 2   \* conversations in one collection
MaxMessages == 2        \* messages in one collection, over all its conversations
MaxTurns == 17          \* user turns in one conversation of the flow inputs
MaxPrompts == 4         \* prompts in one conversation of boundary-length prompts

\* All sequences over S of length at most n.
SeqsUpTo(S, n) == UNION {[1..k -> S] : k \in 0..n}

Conversation(id, project, messages) ==
  [conversationId |-> id, project |-> project, messages |-> messages]

\* All collections of at most nConv conversations holding at most nMsg
\* messages of the pool between them.
RECURSIVE CollectionsOver(_, _, _, _)
CollectionsOver(projects, messagePool, nConv, nMsg) ==
  IF nConv = 0 THEN {<<>>}
  ELSE {<<>>} \cup
       UNION {{<<Conversation("c", p, ms)>> \o rest :
                 p \in projects,
                 rest \in CollectionsOver(projects, messagePool,
                                          nConv - 1, nMsg - Len(ms))} :
              ms \in SeqsUpTo(messagePool, nMsg)}

\* Messages exercising the tool passes: tool_use items with and without a
\* name, text items, and a tool_use outside an assistant message.
ToolMessages ==
  {Message("assistant", 1, ArrayContent(<<ToolUse("A"), ToolUse("B")>>)),
   Message("assistant", 2, ArrayContent(<<ToolUse("A")>>)),
   Message("assistant", 3, ArrayContent(<<ToolUse(""), TextItem, ToolUse("A")>>)),
   Message("user", 4, ArrayContent(<<ToolUse("A")>>))}

ToolCollections ==
  CollectionsOver({"", "p1"}, ToolMessages, MaxConversations, MaxMessages)

\* Messages exercising the task classification: mixed case, several groups
\* in one text, no group, a non-string content, a non-user message.
TaskMessages ==
  {Message("user", 1, StringContent("Fix the login BUG")),
   Message("user", 2, StringContent("please add a fix")),
   Message("user", 3, StringContent("add tests?")),
   Message("user", 4, StringContent("hello there")),
   Message("user", 5, ArrayContent(<<TextItem>>)),
   Message("assistant", 6, StringContent("why remove it"))}

TaskCollections ==
  CollectionsOver({"p1"}, TaskMessages, MaxConversations, MaxMessages)

\* Messages exercising the prompt-length buckets at their boundaries.
PromptMessages ==
  {Message("user", 1, StringContent(Repeat("x", n))) : n \in {0, 49, 50, 199, 200}}
  \cup {Message("user", 2, ArrayContent(<<TextItem>>)),
        Message("assistant", 3, StringContent("ok"))}

\* Prompts one character below and at each bucket boundary.
BoundaryPrompts ==
  {Message("user", 1, StringContent(Repeat("x", n))) : n \in {49, 50, 199, 200}}

PromptCollections ==
  CollectionsOver({"p1"}, PromptMessages, MaxConversations, MaxMessages)
    \cup {<<Conversation("c", "p1", ms)>> : ms \in SeqsUpTo(BoundaryPrompts, MaxPrompts)}

\* A conversation opened by a system message and followed by t user turns,
\* each answered by the assistant or not.
TurnConversation(t, answered) ==
  Conversation("c", "p1",
    <<Message("system", 0, StringContent("Session metadata only"))>> \o
    Flatten([i \in 1..t |->
               IF answered
               THEN <<Message("user", i, StringContent("go")),
                      Message("assistant", i, StringContent("ok"))>>
               ELSE <<Message("user", i, StringContent("go"))>>]))

FlowCollections ==
  SeqsUpTo({TurnConversation(t, a) : t \in 0..MaxTurns, a \in BOOLEAN},
           MaxConversations)

\* Aggregation results handed to generateRecommendations: tool counts,
\* percentages and task counts on both sides of each rule's threshold.
ToolCountInputs ==
  {("Read" :> r) @@ ("Edit" :> e) @@ ("Grep" :> g) @@ ("Glob" :> b)
     @@ ("Task" :> k) @@ ("TodoWrite" :> w) :
     r \in {0, 101, 201}, e \in {0, 150}, g \in {50, 51}, b \in {0, 50},
     k \in {0, 10}, w \in {0, 50}}

TaskPatternInputs ==
  {[debugging |-> d, featureImplementation |-> f, codeReview |-> 0,
    documentation |-> 0, refactoring |-> 0, testing |-> 0, exploration |-> 0,
    configuration |-> 0, update |-> 0, question |-> 0] :
     <<d, f>> \in {<<0, 0>>, <<3, 7>>, <<4, 6>>}}

PromptingInputs ==
  {[distribution |-> [short |-> [count |-> 0, percentage |-> v],
                      medium |-> [count |-> 0, percentage |-> 0],
                      long |-> [count |-> 0, percentage |-> 0]]] : v \in {40, 41}}

FlowInputs ==
  {[distribution |-> [singleTurn |-> [count |-> 0, percentage |-> 0],
                      shortConversations |-> [count |-> 0, percentage |-> 0],
                      mediumConversations |-> [count |-> 0, percentage |-> 0],
                      longConversations |-> [count |-> 0, percentage |-> v]]] :
     v \in {NaN, 30, 31}}

RecommendationConversations ==
  LET oneTool == Conversation("c", "p1",
                   <<Message("assistant", 1, ArrayContent(<<ToolUse("Read")>>))>>)
      twoTools == Conversation("c", "p1",
                    <<Message("assistant", 1,
                              ArrayContent(<<ToolUse("Read"), ToolUse("Grep")>>))>>)
      noTool == Conversation("c", "p1",
                  <<Message("user", 1, StringContent("go")),
                    Message("assistant", 2, ArrayContent(<<TextItem>>))>>)
  IN {<<>>, <<oneTool>>, <<twoTools>>, <<noTool>>, <<twoTools, noTool>>,
      <<oneTool, twoTools>>}

\* The disk holding the given [path, file] entries.
MkDisk(entries) ==
  [p \in {e.path : e \in entries} |-> (CHOOSE e \in entries : e.path = p).file]

\* The disks holding, for each of the given paths, one of the files offered
\* for it or nothing.
RECURSIVE DisksOver(_, _)
DisksOver(Offered(_), paths) ==
  IF paths = {} THEN {{}}
  ELSE LET path == CHOOSE p \in paths : TRUE
       IN UNION {{rest, rest \cup {[path |-> path, file |-> file]}} :
                 <<rest, file>> \in DisksOver(Offered, paths \ {path}) \X Offered(path)}

ClaudeSession1 == PROJECTS_DIR \o <<"p1", "s1.jsonl">>
ClaudeSession2 == PROJECTS_DIR \o <<"p1", "s2.jsonl">>
ClaudeSubagent == PROJECTS_DIR \o <<"p1", "s1", "subagents", "agent-a1.jsonl">>
CodexRollout1 == CODEX_SESSIONS_DIR \o <<"2026", "rollout-1.jsonl">>
CodexRollout2 == CODEX_SESSIONS_DIR \o <<"rollout-2.jsonl">>
CursorTranscript1 == CURSOR_PROJECTS_DIR \o <<"app", "agent-transcripts", "t1.txt">>
CursorTranscript2 == CURSOR_PROJECTS_DIR \o <<"app", "agent-transcripts", "t2.txt">>
CursorNotes == CURSOR_PROJECTS_DIR \o <<"app", "notes.txt">>

\* A Claude session written in order: a prompt and the assistant's tool calls.
ClaudeChat ==
  JsonlFile(1000, 120,
    <<JsonLine(Message("user", 100, StringContent("fix the bug"))),
      JsonLine(Message("assistant", 200, ArrayContent(<<ToolUse("Read"), TextItem>>)))>>)

\* A Claude session one of whose records has a null inside its content array.
ClaudeNullItem ==
  JsonlFile(1100, 60,
    <<JsonLine(Message("assistant", 300, ArrayContent(<<NullItem>>)))>>)

ClaudeFiles ==
  {JsonlFile(1000, 0, <<>>),
   JsonlFile(1000, 9, <<GarbageLine, BlankLine>>),
   JsonlFile(1000, 40, <<JsonLine(Message("summary", NoTimestamp, NoContent))>>),
   JsonlFile(1000, 70, <<GarbageLine, FalsyLine,
                         JsonLine(Message("user", 100, StringContent("hello there")))>>),
   ClaudeChat,
   Unreadable(ClaudeChat)}

ClaudeOffered(path) ==
  IF path = ClaudeSession1 THEN ClaudeFiles
  ELSE {JsonlFile(2000, 30,
          <<JsonLine(Message("assistant", 400, ArrayContent(<<ToolUse("Grep")>>)))>>)}

SessionMeta ==
  JsonLine(CodexEntry("session_meta", 50,
             Payload([id |-> "sess-1", cwd |-> "/work/app", cli_version |-> "0.9"])))

CodexText(timestamp, role, content) ==
  JsonLine(CodexEntry("response_item", timestamp,
             Payload([type |-> "message", role |-> role, content |-> content])))

CodexFiles ==
  {JsonlFile(1000, 0, <<>>),
   JsonlFile(1000, 9, <<GarbageLine, BlankLine>>),
   JsonlFile(1000, 80, <<SessionMeta>>),
   JsonlFile(1000, 300,
     <<SessionMeta,
       CodexText(60, "user", StringContent(" add a test ")),
       JsonLine(CodexEntry("response_item", 70,
                  Payload([type |-> "function_call", name |-> "shell"]))),
       CodexText(80, "assistant",
                 ArrayContent(<<CodexItem("output_text", "done"), CodexItem("none", ""),
                                CodexItem("text", "ok")>>)),
       CodexText(85, "developer", StringContent("note")),
       JsonLine(CodexEntry("event_msg", 90, Payload([type |-> "token_count"])))>>),
   JsonlFile(1000, 100,
     <<CodexText(60, "user", StringContent("hi")),
       CodexText(NoTimestamp, "assistant", StringContent("there"))>>),
   JsonlFile(1000, 50, <<CodexText(60, "user", StringContent("  "))>>)}

CodexOffered(path) ==
  IF path = CodexRollout1 THEN CodexFiles ELSE {JsonlFile(2000, 80, <<SessionMeta>>)}

CursorTexts ==
  {"",
   "notes without a role line",
   "user:\nhi",
   "user:\n<user_query>\n</user_query>",
   "assistant:\n[Tool call] Read\nhello",
   "assistant:\n[Tool call] Read\n[Tool call]  Edit",
   "user:\n<user_query>\nfix it\n</user_query>\n\nassistant:\n[Tool call] Read\n[Tool result] ok\ndone",
   "assistant:\n[Tool call] Read\n[Tool call] Edit\nok\nuser:\nnext",
   "assistant:\nI ran [Tool call] Bash first"}

CursorOffered(path) ==
  IF path = CursorTranscript1
  THEN {TextFile(1000, text) : text \in CursorTexts}
         \cup {Unreadable(TextFile(1000, "user:\nhi"))}
  ELSE {TextFile(2000, "user:\nhi")}

\* The disks the readers are applied to: one source populated at a time.
ReaderDisks ==
  {MkDisk(entries) :
     entries \in DisksOver(ClaudeOffered, {ClaudeSession1, ClaudeSession2, ClaudeSubagent})
                   \cup DisksOver(CodexOffered, {CodexRollout1, CodexRollout2})
                   \cup DisksOver(CursorOffered,
                                  {CursorTranscript1, CursorTranscript2, CursorNotes})}

\* The files written below the three roots while the server runs.
ServerWrites ==
  {[path |-> ClaudeSession1, file |-> ClaudeChat],
   [path |-> ClaudeSession2, file |-> ClaudeNullItem],
   [path |-> CodexRollout1,
    file |-> JsonlFile(1000, 100,
               <<SessionMeta, CodexText(60, "user", StringContent("add a test")),
                 JsonLine(CodexEntry("response_item", 70,
                            Payload([type |-> "function_call", name |-> "Read"])))>>)]}

ServerDisks == {MkDisk(entries) : entries \in SUBSET ServerWrites}

MaxLoads == 2   \* rebuilds attempted in one run of the server

RequestedSources == {"", "Codex", "bogus"}

-----------------------------------------------------------------------------
(* The analyzer as a state machine: from the idle state (no call made yet)   *)
(* each action applies one exported function to an input and records the    *)
(* call, its input and its result.                                          *)

Idle == call = "none"

Applied(name, input, output) ==
  Idle /\ call' = name /\ arg' = input /\ ret' = output

CallAnalyzeToolUsage ==
  \E conversations \in ToolCollections :
    /\ Applied("analyzeToolUsage", conversations, analyzeToolUsage(conversations))
    /\ UNCHANGED <<disk, cacheVars, now, server, response>>

CallAnalyzeTaskPatterns ==
  \E conversations \in TaskCollections :
    /\ Applied("analyzeTaskPatterns", conversations, analyzeTaskPatterns(conversations))
    /\ UNCHANGED <<disk, cacheVars, now, server, response>>

CallAnalyzePromptingPatterns ==
  \E conversations \in PromptCollections :
    /\ Applied("analyzePromptingPatterns", conversations,
               analyzePromptingPatterns(conversations))
    /\ UNCHANGED <<disk, cacheVars, now, server, response>>

\* Conversations whose tool calls form many different pairs: twelve
\* different pairs in one conversation, repeated pairs, pairs of other tools.
SequenceConversations ==
  {Conversation("c", "p1", <<Message("assistant", 1, ArrayContent(MapSeq(names, ToolUse)))>>) :
     names \in {<<"A", "B", "C", "D", "A", "C", "B", "D", "B", "A", "D", "C", "A">>,
                <<"D", "C", "D", "C">>,
                <<"B", "A", "B">>,
                <<"E", "A", "E">>,
                <<"C", "C">>}}

SequenceCollections == SeqsUpTo(SequenceConversations, MaxConversations + 1)

CallAnalyzeConversationFlows ==
  \E conversations \in FlowCollections :
    /\ Applied("analyzeConversationFlows", conversations,
               analyzeConversationFlows(conversations))
    /\ UNCHANGED <<disk, cacheVars, now, server, response>>

CallAnalyzeToolSequences ==
  \E conversations \in ToolCollections \cup SequenceCollections :
    /\ Applied("analyzeToolSequences", conversations, analyzeToolSequences(conversations))
    /\ UNCHANGED <<disk, cacheVars, now, server, response>>

CallGenerateRecommendations ==
  \E conversations \in RecommendationConversations, overall \in ToolCountInputs,
     taskPatterns \in TaskPatternInputs, promptingPatterns \in PromptingInputs,
     conversationFlows \in FlowInputs :
    LET toolUsage == [overall |-> overall, byProject |-> EmptyMap]
    IN /\ Applied("generateRecommendations",
                  [conversations |-> conversations, toolUsage |-> toolUsage,
                   taskPatterns |-> taskPatterns,
                   promptingPatterns |-> promptingPatterns,
                   conversationFlows |-> conversationFlows],
                  generateRecommendations(conversations, toolUsage, taskPatterns,
                                          promptingPatterns, conversationFlows))
       /\ UNCHANGED <<disk, cacheVars, now, server, response>>

-----------------------------------------------------------------------------
(* The readers as a state machine: each action applies one exported reader  *)
(* to the disk and records the call and its result.                         *)

CallGetAllConversations ==
  \E listing \in ListingOrders :
    /\ Applied("getAllConversations", disk, getAllConversations(disk, listing))
    /\ UNCHANGED <<disk, cacheVars, now, server, response>>

CallGetCodexConversations ==
  /\ Applied("getCodexConversations", disk, getCodexConversations(disk))
  /\ UNCHANGED <<disk, cacheVars, now, server, response>>

CallGetCursorConversations ==
  /\ Applied("getCursorConversations", disk, getCursorConversations(disk))
  /\ UNCHANGED <<disk, cacheVars, now, server, response>>

CallGetConversationsFingerprint ==
  \E listing \in ListingOrders :
    /\ Applied("getConversationsFingerprint", disk,
               getConversationsFingerprint(disk, listing))
    /\ UNCHANGED <<disk, cacheVars, now, server, response>>

-----------------------------------------------------------------------------
(* The server as a state machine: files appear and disappear below the      *)
(* roots, the process starts, and requests arrive one at a time.            *)

WriteFile ==
  \E entry \in ServerWrites :
    /\ disk' = [p \in DOMAIN disk \cup {entry.path} |->
                  IF p = entry.path THEN entry.file ELSE disk[p]]
    /\ disk' # disk
    /\ UNCHANGED <<call, arg, ret, cacheVars, now, server, response>>

DeleteFile ==
  \E path \in DOMAIN disk :
    /\ disk' = [p \in DOMAIN disk \ {path} |-> disk[p]]
    /\ UNCHANGED <<call, arg, ret, cacheVars, now, server, response>>

\* A load that rebuilds advances the clock; MaxLoads bounds the rebuilds.
Loads(attempt) ==
  /\ attempt.outcome # "fresh" => now < MaxLoads
  /\ loadConversations(attempt)
  /\ now' = IF attempt.outcome = "fresh" THEN now ELSE now + 1

\* loadConversations({ force: true }) at module level, then app.listen; an
\* exception escaping the module ends the process.
Startup ==
  /\ server = "starting"
  /\ \E read \in DiskReads :
       \E attempt \in {LoadAttempt(TRUE, read)} :
          /\ Loads(attempt)
          /\ server' = IF attempt.outcome = "threw" THEN "crashed" ELSE "listening"
  /\ UNCHANGED <<disk, call, arg, ret, response>>

\* GET /api/health behind ensureConversationDataFresh
GetHealth ==
  /\ server = "listening"
  /\ \E read \in DiskReads :
       \E attempt \in {LoadAttempt(FALSE, read)} :
          /\ Loads(attempt)
          /\ response' =
               IF attempt.outcome = "threw" THEN LoadFailedResponse
               ELSE JsonResponse(200,
                      [status |-> "ok",
                       conversationsLoaded |-> Len(cachedConversations'),
                       conversationsBySource |->
                         [source \in {SOURCES[i] : i \in 1..Len(SOURCES)} |->
                            IF source \in DOMAIN cachedConversationsBySource'
                            THEN Len(cachedConversationsBySource'[source]) ELSE 0],
                       lastLoadTime |-> lastLoadTime'])
  /\ UNCHANGED <<disk, call, arg, ret, server>>

\* GET /api/analytics/summary?source=... behind ensureConversationDataFresh
GetAnalyticsSummary ==
  /\ server = "listening"
  /\ \E read \in DiskReads :
       \E attempt \in {LoadAttempt(FALSE, read)} :
          /\ Loads(attempt)
          /\ \E requested \in RequestedSources :
               LET source == normalizeSource(requested)
                   summary == IF source = "all" THEN cachedAnalytics'
                              ELSE IF source \in DOMAIN cachedAnalyticsBySource'
                              THEN cachedAnalyticsBySource'[source] ELSE Null
               IN response' =
                    IF attempt.outcome = "threw" THEN LoadFailedResponse
                    ELSE IF source # "all" /\ ~IsSource(source)
                    THEN JsonResponse(400, [error |-> "Invalid source"])
                    ELSE IF summary = Null
                    THEN JsonResponse(503, [error |-> "Analytics not ready"])
                    ELSE JsonResponse(200, summary)
  /\ UNCHANGED <<disk, call, arg, ret, server>>

\* POST /api/reload
Reload ==
  /\ server = "listening"
  /\ \E read \in DiskReads :
       \E attempt \in {LoadAttempt(TRUE, read)} :
          /\ Loads(attempt)
          /\ response' =
               IF attempt.outcome = "threw"
               THEN JsonResponse(500, [success |-> FALSE,
                                       error |-> "Cannot read properties of null"])
               ELSE JsonResponse(200, [success |-> TRUE,
                                       conversationsLoaded |-> Len(cachedConversations'),
                                       lastLoadTime |-> lastLoadTime'])
  /\ UNCHANGED <<disk, call, arg, ret, server>>

-----------------------------------------------------------------------------
(* Initial state: the module-level declarations of the server and an empty  *)
(* home directory.                                                          *)

EmptyDisk == EmptyMap

InitCache ==
  /\ cachedConversations = <<>>
  /\ cachedConversationsBySource = EmptyMap
  /\ cachedAnalytics = Null
  /\ cachedAnalyticsBySource = EmptyMap
  /\ cachedSchemaAll = Null
  /\ cachedSchemaBySource = EmptyMap
  /\ cachedFingerprint = Null
  /\ lastLoadTime = NoTimestamp
  /\ generation = NeverLoaded
  /\ builtFrom = [field \in DOMAIN NeverLoaded |-> Null]

InitIdle ==
  /\ call = "none" /\ arg = <<>> /\ ret = <<>>
  /\ InitCache
  /\ now = 0
  /\ server = "starting"
  /\ response = Null

InitAnalyzer == disk = EmptyDisk /\ InitIdle

NextAnalyzer ==
  \/ CallAnalyzeToolUsage
  \/ CallAnalyzeTaskPatterns
  \/ CallAnalyzePromptingPatterns
  \/ CallAnalyzeConversationFlows
  \/ CallAnalyzeToolSequences
  \/ CallGenerateRecommendations

SpecAnalyzer == InitAnalyzer /\ [][NextAnalyzer]_vars

SpecToolUsage == InitAnalyzer /\ [][CallAnalyzeToolUsage]_vars
SpecTaskPatterns == InitAnalyzer /\ [][CallAnalyzeTaskPatterns]_vars
SpecPromptingPatterns == InitAnalyzer /\ [][CallAnalyzePromptingPatterns]_vars
SpecConversationFlows == InitAnalyzer /\ [][CallAnalyzeConversationFlows]_vars
SpecToolSequences == InitAnalyzer /\ [][CallAnalyzeToolSequences]_vars
SpecRecommendations == InitAnalyzer /\ [][CallGenerateRecommendations]_vars

InitReaders == disk \in ReaderDisks /\ InitIdle

NextReaders ==
  \/ CallGetAllConversations
  \/ CallGetCodexConversations
  \/ CallGetCursorConversations
  \/ CallGetConversationsFingerprint

SpecReaders == InitReaders /\ [][NextReaders]_vars

InitServer == disk \in ServerDisks /\ InitIdle

NextServer ==
  \/ WriteFile
  \/ DeleteFile
  \/ Startup
  \/ GetHealth
  \/ GetAnalyticsSummary
  \/ Reload

SpecServer == InitServer /\ [][NextServer]_vars

-----------------------------------------------------------------------------
(* Properties of the readers.                                               *)

ReaderCalls == {"getAllConversations", "getCodexConversations", "getCursorConversations"}

\* The transcript files the reader of a call discovers on a disk.
DiscoveredFiles(reader, d) ==
  LET files == IF reader = "getAllConversations" THEN getConversationFiles(d, "ascending")
               ELSE IF reader = "getCodexConversations" THEN getCodexSessionFiles(d)
               ELSE getCursorTranscriptFiles(d)
  IN {files[i] : i \in 1..Len(files)}

\* A file that is empty or none of whose lines parses.
HoldsNoRecord(file) ==
  /\ file.text = ""
  /\ \A i \in 1..Len(file.lines) : file.lines[i].kind # "json"

\* C1: every conversation returned by any of the three readers has at least
\* one message, including when its source file is empty or none of its
\* lines parses.
C1_EveryConversationHasAMessage ==
  call \in ReaderCalls => \A i \in 1..Len(ret) : Len(ret[i].messages) >= 1

\* C2: every readable transcript file discovered by a reader yields exactly
\* one conversation in that reader's output, and a file that is empty or
\* holds no parseable record yields a conversation whose single message is
\* a system message.
C2_OneConversationPerFile ==
  call \in ReaderCalls =>
    \A filePath \in DiscoveredFiles(call, arg) :
      arg[filePath].readable =>
        LET made == {i \in 1..Len(ret) : ret[i].path = filePath}
        IN /\ Cardinality(made) = 1
           /\ HoldsNoRecord(arg[filePath]) =>
                \A i \in made : /\ Len(ret[i].messages) = 1
                                 /\ ret[i].messages[1].type = "system"

\* C3: in every conversation produced by a reader the message timestamps
\* are non-decreasing in message order, the tool-invocation messages and
\* the text message of one Cursor block and the messages of the next block
\* included.
C3_TimestampsNonDecreasing ==
  call \in ReaderCalls =>
    \A c \in 1..Len(ret) : \A m \in 1..(Len(ret[c].messages) - 1) :
      LET earlier == ret[c].messages[m].timestamp
          later == ret[c].messages[m + 1].timestamp
      IN earlier # NoTimestamp /\ later # NoTimestamp => earlier <= later

-----------------------------------------------------------------------------
(* Properties of the server's cache.                                        *)

\* C4: whenever a handler has answered from the cache (the last response is
\* a 200), the cached conversations, per-source conversations, overall and
\* per-source analytics, schema snapshot and fingerprint all come from one
\* and the same load, whatever loads failed before.
C4_HandlersReadOneGeneration ==
  response # Null /\ response.status = 200 =>
    \A field \in DOMAIN generation : generation[field] = generation.conversations

-----------------------------------------------------------------------------
(* Properties of the aggregation passes.                                    *)

RECURSIVE SetSum(_, _)
\* The sum of F over the finite set S.
SetSum(F(_), S) ==
  IF S = {} THEN 0
  ELSE LET x == CHOOSE y \in S : TRUE IN F(x) + SetSum(F, S \ {x})

\* The positions <<conversation, message, item>> of the named tool_use items
\* held by assistant messages, with the project they are grouped under.
NamedToolUses(conversations) ==
  {<<c, m, i>> \in UNION {UNION {{<<c, m, i>> :
                    i \in 1..Len(conversations[c].messages[m].message.content.items)} :
                  m \in 1..Len(conversations[c].messages)} :
                c \in 1..Len(conversations)} :
     LET msg == conversations[c].messages[m]
         item == msg.message.content.items[i]
     IN /\ msg.type = "assistant"
        /\ msg.message.content.kind = "array"
        /\ item.type = "tool_use"
        /\ item.name # ""}

ToolNameAt(conversations, pos) ==
  conversations[pos[1]].messages[pos[2]].message.content.items[pos[3]].name

ProjectGroupAt(conversations, pos) ==
  IF conversations[pos[1]].project = "" THEN "unknown"
  ELSE conversations[pos[1]].project

\* C5: in the result of analyzeToolUsage, for every tool name the overall
\* count equals the sum of that tool's counts over all projects of
\* byProject; a project's count of a tool is the number of named tool_use
\* items of that name inside assistant messages of the project's
\* conversations (those without a project counting under "unknown"), and
\* nothing else is counted.
C5_OverallIsSumOfProjects ==
  call = "analyzeToolUsage" =>
    LET uses == NamedToolUses(arg)
        names == DOMAIN ret.overall \cup {ToolNameAt(arg, pos) : pos \in uses}
                   \cup UNION {DOMAIN ret.byProject[p] : p \in DOMAIN ret.byProject}
    IN /\ \A tool \in names :
            CountOf(ret.overall, tool) =
              SetSum(LAMBDA p : CountOf(ret.byProject[p], tool), DOMAIN ret.byProject)
       /\ \A p \in DOMAIN ret.byProject : \A tool \in names :
            CountOf(ret.byProject[p], tool) =
              Cardinality({pos \in uses : /\ ProjectGroupAt(arg, pos) = p
                                          /\ ToolNameAt(arg, pos) = tool})
       /\ \A pos \in uses : ProjectGroupAt(arg, pos) \in DOMAIN ret.byProject

\* Witness of C5: a tool used in two projects, one of them "unknown", next
\* to a tool_use without a name, which is not counted.
C5_Witness ==
  /\ call = "analyzeToolUsage"
  /\ DOMAIN ret.byProject = {"unknown", "p1"}
  /\ CountOf(ret.byProject["unknown"], "A") = 1
  /\ CountOf(ret.byProject["p1"], "A") = 1
  /\ CountOf(ret.overall, "A") = 2
  /\ \E c \in 1..Len(arg) : \E m \in 1..Len(arg[c].messages) :
       \E i \in 1..Len(arg[c].messages[m].message.content.items) :
         /\ arg[c].messages[m].message.content.items[i].type = "tool_use"
         /\ arg[c].messages[m].message.content.items[i].name = ""

\* The priority order of the task groups as the specification states it.
StatedGroupOrder ==
  <<"debugging", "featureImplementation", "testing", "refactoring", "update",
    "configuration", "documentation", "codeReview", "exploration", "question">>

\* The group of the stated order that a text counts under: the first one
\* with a keyword occurring in the lower-cased text, "" when there is none.
StatedGroup(text) ==
  LET lower == ToLowerCase(text)
      matching == {g \in 1..Len(StatedGroupOrder) :
                     \E k \in 1..Len(keywords[StatedGroupOrder[g]]) :
                       Includes(lower, keywords[StatedGroupOrder[g]][k])}
  IN IF matching = {} THEN "" ELSE StatedGroupOrder[Min(matching)]

\* The positions <<conversation, message>> of the user messages with string content.
UserStringMessages(conversations) ==
  {<<c, m>> \in UNION {{<<c, m>> : m \in 1..Len(conversations[c].messages)} :
                       c \in 1..Len(conversations)} :
     /\ conversations[c].messages[m].type = "user"
     /\ conversations[c].messages[m].message.content.kind = "string"}

TextAt(conversations, pos) ==
  conversations[pos[1]].messages[pos[2]].message.content.text

\* C6: analyzeTaskPatterns counts each user message with string content in
\* at most one bucket, that of the first group of the stated order having a
\* keyword in the lower-cased text; a message matching no group is counted
\* nowhere, so the buckets sum to at most the number of such messages.
C6_FirstMatchingGroupOnly ==
  call = "analyzeTaskPatterns" =>
    LET messages == UserStringMessages(arg)
        grouped == {<<pos, StatedGroup(TextAt(arg, pos))>> : pos \in messages}
    IN /\ \A g \in DOMAIN ret :
            ret[g] = Cardinality({pg \in grouped : pg[2] = g})
       /\ SetSum(LAMBDA g : ret[g], DOMAIN ret) <= Cardinality(messages)

\* Witness of C6: a text holding both "fix" and "add" counted as debugging
\* only, next to a text that matches no group.
C6_Witness ==
  /\ call = "analyzeTaskPatterns"
  /\ \E pos \in UserStringMessages(arg) :
       /\ Includes(ToLowerCase(TextAt(arg, pos)), "fix")
       /\ Includes(ToLowerCase(TextAt(arg, pos)), "add")
  /\ \E pos \in UserStringMessages(arg) : StatedGroup(TextAt(arg, pos)) = ""
  /\ ret.debugging = 1
  /\ ret.featureImplementation = 0
  /\ SetSum(LAMBDA g : ret[g], DOMAIN ret) < Cardinality(UserStringMessages(arg))

\* The number of user messages whose content is a string of a length n with InBucket(n).
PromptsOfLength(conversations, InBucket(_)) ==
  Cardinality({pos \in UserStringMessages(conversations) :
                 InBucket(Len(TextAt(conversations, pos)))})

ConversationsOfTurns(conversations, InBucket(_)) ==
  Cardinality({c \in 1..Len(conversations) :
                 InBucket(Cardinality({m \in 1..Len(conversations[c].messages) :
                                         conversations[c].messages[m].type = "user"}))})

\* C8: analyzeConversationFlows counts every conversation in exactly one
\* bucket, determined by its number t of user messages: singleTurn iff
\* t = 1, shortConversations iff 2 <= t <= 5, mediumConversations iff
\* 6 <= t <= 15, longConversations iff t >= 16.
C8_FlowBucketsByTurns ==
  call = "analyzeConversationFlows" =>
    /\ ret.distribution.singleTurn.count = ConversationsOfTurns(arg, LAMBDA t : t = 1)
    /\ ret.distribution.shortConversations.count
         = ConversationsOfTurns(arg, LAMBDA t : 2 <= t /\ t <= 5)
    /\ ret.distribution.mediumConversations.count
         = ConversationsOfTurns(arg, LAMBDA t : 6 <= t /\ t <= 15)
    /\ ret.distribution.longConversations.count
         = ConversationsOfTurns(arg, LAMBDA t : t >= 16)
    /\ ret.distribution.singleTurn.count + ret.distribution.shortConversations.count
         + ret.distribution.mediumConversations.count
         + ret.distribution.longConversations.count = Len(arg)

\* The tool names a conversation invokes, in order across its assistant messages.
NamedToolsOf(conv) ==
  Flatten([m \in 1..Len(conv.messages) |->
             IF conv.messages[m].type = "assistant"
                  /\ conv.messages[m].message.content.kind = "array"
             THEN LET named == SelectSeq(conv.messages[m].message.content.items,
                                         LAMBDA item : item.type = "tool_use"
                                                         /\ item.name # "")
                  IN [i \in 1..Len(named) |-> named[i].name]
             ELSE <<>>])

\* The places <<conversation, i>> where tool a is directly followed by tool
\* b in the tool sequence of one conversation.
AdjacentPairs(conversations, a, b) ==
  {<<c, i>> \in UNION {{<<c, i>> : i \in 1..(Len(NamedToolsOf(conversations[c])) - 1)} :
                       c \in 1..Len(conversations)} :
     /\ NamedToolsOf(conversations[c])[i] = a
     /\ NamedToolsOf(conversations[c])[i + 1] = b}

\* The count recorded for a key in a list of {sequence, count} entries, 0
\* when the key has no entry.
EntryCount(entries, key) ==
  IF \E i \in 1..Len(entries) : entries[i].sequence = key
  THEN entries[CHOOSE i \in 1..Len(entries) : entries[i].sequence = key].count
  ELSE 0

\* C9: before the top-10 cut analyzeToolSequences has counted, for each
\* conversation separately, exactly the adjacent pairs of its tool-name
\* sequence: a conversation of n named tools contributes n - 1 occurrences
\* (0 when n <= 1), no pair joins two conversations, a pair X -> X is
\* counted only where X is invoked twice in a row; every entry returned
\* carries that count.
C9_AdjacentPairsPerConversation ==
  call = "analyzeToolSequences" =>
    LET counts == ToolSequenceCounts(arg)
        names == UNION {{NamedToolsOf(arg[c])[i] : i \in 1..Len(NamedToolsOf(arg[c]))} :
                        c \in 1..Len(arg)}
    IN /\ \A a \in names : \A b \in names :
            EntryCount(counts, a \o " → " \o b) = Cardinality(AdjacentPairs(arg, a, b))
       /\ SumSeq([i \in 1..Len(counts) |-> counts[i].count])
            = SumSeq([c \in 1..Len(arg) |->
                        IF Len(NamedToolsOf(arg[c])) <= 1 THEN 0
                        ELSE Len(NamedToolsOf(arg[c])) - 1])
       /\ \A i \in 1..Len(counts) : \A j \in 1..Len(counts) :
            counts[i].sequence = counts[j].sequence => i = j
       /\ \A i \in 1..Len(ret) : EntryCount(counts, ret[i].sequence) = ret[i].count
       /\ Len(counts) <= 10 => Len(ret) = Len(counts)

\* Witness of C9: a conversation invoking A, B, A over two assistant
\* messages gives A -> B once, B -> A once and no A -> A.
C9_Witness ==
  /\ call = "analyzeToolSequences"
  /\ Len(arg) = 1
  /\ Len(arg[1].messages) = 2
  /\ NamedToolsOf(arg[1]) = <<"A", "B", "A">>
  /\ EntryCount(ret, "A → B") = 1
  /\ EntryCount(ret, "B → A") = 1
  /\ EntryCount(ret, "A → A") = 0
  /\ Len(ret) = 2

\* The rules of generateRecommendations by title, in evaluation order.
RuleOrder ==
  <<"Use Task Agent for Complex Searches", "Track Complex Tasks with TodoWrite",
    "Consider Batching Read Operations", "Provide More Context in Prompts",
    "Use Glob for File Discovery", "Debugging Strategy",
    "Request Parallel Operations">>

RuleIndex(rec) == CHOOSE i \in 1..Len(RuleOrder) : RuleOrder[i] = rec.title

PriorityRank(rec) ==
  CASE rec.priority = "high" -> 0
    [] rec.priority = "medium" -> 1
    [] rec.priority = "low" -> 2

\* r comes before s in the order of the result: by priority tier, and by
\* rule evaluation order inside a tier.
ComesBefore(r, s) ==
  \/ PriorityRank(r) < PriorityRank(s)
  \/ PriorityRank(r) = PriorityRank(s) /\ RuleIndex(r) < RuleIndex(s)

\* C10: generateRecommendations returns at most 5 recommendations, every
\* high before every medium before every low, those of one priority in the
\* order their rules are evaluated; only fired recommendations are returned
\* and a fired one is left out only when 5 fired recommendations of equal
\* or higher priority come before it in that order.
C10_TopFiveByPriority ==
  call = "generateRecommendations" =>
    LET fired == FiredRecommendations(arg.conversations, arg.toolUsage,
                                      arg.taskPatterns, arg.promptingPatterns,
                                      arg.conversationFlows)
        firedSet == {fired[i] : i \in 1..Len(fired)}
        returned == {ret[i] : i \in 1..Len(ret)}
    IN /\ Len(ret) <= 5
       /\ \A i \in 1..Len(ret) : \A j \in 1..Len(ret) :
            i < j => ComesBefore(ret[i], ret[j])
       /\ returned \subseteq firedSet
       /\ \A r \in firedSet \ returned :
            Cardinality({s \in firedSet : ComesBefore(s, r)}) >= 5

\* Witness of C10: all seven rules fire; the three high and the first two
\* medium recommendations are returned in that order.
C10_Witness ==
  /\ call = "generateRecommendations"
  /\ Len(FiredRecommendations(arg.conversations, arg.toolUsage, arg.taskPatterns,
                              arg.promptingPatterns, arg.conversationFlows)) = 7
  /\ [i \in 1..Len(ret) |-> ret[i].title]
       = <<"Use Task Agent for Complex Searches", "Track Complex Tasks with TodoWrite",
           "Request Parallel Operations", "Consider Batching Read Operations",
           "Provide More Context in Prompts">>

-----------------------------------------------------------------------------
(* The schema snapshot as a state machine: buildSchemaSnapshot is applied   *)
(* to what the readers return for a disk on which several sources hold      *)
(* files at once.                                                           *)

ClaudeSummaryOnly ==
  JsonlFile(1000, 40, <<JsonLine(Message("summary", NoTimestamp, NoContent))>>)

ClaudeLayouts ==
  {{},
   {[path |-> ClaudeSession1, file |-> ClaudeChat]},
   {[path |-> ClaudeSession1, file |-> ClaudeSummaryOnly]},
   {[path |-> ClaudeSession1, file |-> ClaudeChat],
    [path |-> ClaudeSubagent, file |-> ClaudeSummaryOnly]}}

CodexLayouts ==
  {{},
   {[path |-> CodexRollout1, file |-> JsonlFile(1000, 80, <<SessionMeta>>)]},
   {[path |-> CodexRollout1,
     file |-> JsonlFile(1000, 200,
                <<SessionMeta, CodexText(60, "user", StringContent("add a test")),
                  JsonLine(CodexEntry("response_item", 70,
                             Payload([type |-> "function_call", name |-> "shell"])))>>)]},
   {[path |-> CodexRollout2,
     file |-> JsonlFile(1000, 50, <<CodexText(NoTimestamp, "user", StringContent("hi"))>>)]}}

CursorLayouts ==
  {{},
   {[path |-> CursorTranscript1, file |-> TextFile(1000, "user:\nhi")]},
   {[path |-> CursorTranscript1, file |-> TextFile(1000, "assistant:\n[Tool call] Read\nhello")]},
   {[path |-> CursorTranscript1, file |-> TextFile(1000, "")],
    [path |-> CursorTranscript2, file |-> TextFile(2000, "user:\nhi")]}}

SchemaDisks ==
  {MkDisk(claude \cup codex \cup cursor) :
     claude \in ClaudeLayouts, codex \in CodexLayouts, cursor \in CursorLayouts}

CallBuildSchemaSnapshot ==
  \E listing \in ListingOrders :
    \E bySource \in {getAllConversationsBySource(disk, listing)} :
      /\ Applied("buildSchemaSnapshot", bySource,
                 buildSchemaSnapshot(bySource,
                   Flatten([i \in 1..Len(SOURCES) |-> bySource[SOURCES[i]]])))
      /\ UNCHANGED <<disk, cacheVars, now, server, response>>

InitSchema == disk \in SchemaDisks /\ InitIdle

SpecSchema == InitSchema /\ [][CallBuildSchemaSnapshot]_vars

-----------------------------------------------------------------------------
(* Properties of the schema snapshot.                                       *)

\* The unique-field list of a source's schema and the frequency table it is
\* taken from.
UniqueLists ==
  {[unique |-> "uniqueConversationFields", table |-> "conversationFields"],
   [unique |-> "uniqueMetadataFields", table |-> "metadataFields"],
   [unique |-> "uniqueMessageFields", table |-> "messageFields"]}

SourceNames == {SOURCES[i] : i \in 1..Len(SOURCES)}

ListedIn(list) == {list[i] : i \in 1..Len(list)}

\* C11: in the snapshot of buildSchemaSnapshot a field name listed as unique
\* for a source occurs in that source's frequency table and in no other
\* configured source's table, so the unique-field lists of two different
\* sources share no name.
C11_UniqueFieldsOfOneSourceOnly ==
  call = "buildSchemaSnapshot" =>
    \A kind \in UniqueLists : \A source \in SourceNames :
      \A field \in ListedIn(ret.bySource[source][kind.unique]) :
        /\ field \in NamesOf(ret.bySource[source][kind.table])
        /\ \A other \in SourceNames \ {source} :
             /\ field \notin NamesOf(ret.bySource[other][kind.table])
             /\ field \notin ListedIn(ret.bySource[other][kind.unique])

\* Claude (with a subagent run) and Codex both hold conversations: each has
\* a conversation field of its own, and conversationId, which both carry,
\* is unique to neither; Codex alone has messages with a timestamp.
C11_Witness ==
  /\ call = "buildSchemaSnapshot"
  /\ ret.bySource["claude"].uniqueConversationFields = <<"parentConversationId">>
  /\ "metadata" \in ListedIn(ret.bySource["codex"].uniqueConversationFields)
  /\ "conversationId" \in NamesOf(ret.bySource["claude"].conversationFields)
  /\ "conversationId" \in NamesOf(ret.bySource["codex"].conversationFields)
  /\ ret.bySource["codex"].uniqueMetadataFields # <<>>

-----------------------------------------------------------------------------
(* The fingerprint as a state machine: files below the roots are written,   *)
(* touched and removed, and getConversationsFingerprint is called twice.    *)

FingerprintA == CODEX_SESSIONS_DIR \o <<"a.jsonl">>
FingerprintB == CODEX_SESSIONS_DIR \o <<"b.jsonl">>
\* b.jsonl below a directory named a.jsonl:1:2 that repeats the root's path.
FingerprintNested ==
  CODEX_SESSIONS_DIR \o <<"a.jsonl:1:2">> \o CODEX_SESSIONS_DIR \o <<"b.jsonl">>

\* The files written while the fingerprint is watched, each with its size
\* and modification time; notes.txt lies outside agent-transcripts.
FingerprintWrites ==
  {[path |-> FingerprintA, file |-> JsonlFile(2, 1, <<>>)],
   [path |-> FingerprintA, file |-> JsonlFile(7, 1, <<>>)],
   [path |-> FingerprintB, file |-> JsonlFile(4, 3, <<>>)],
   [path |-> FingerprintNested, file |-> JsonlFile(4, 3, <<>>)],
   [path |-> ClaudeSession1, file |-> JsonlFile(100, 10, <<>>)],
   [path |-> CursorNotes, file |-> TextFile(50, "notes")]}

\* A file is created, rewritten or touched.
ChangeFile ==
  \E entry \in FingerprintWrites :
    /\ disk' = [p \in DOMAIN disk \cup {entry.path} |->
                  IF p = entry.path THEN entry.file ELSE disk[p]]
    /\ disk' # disk
    /\ UNCHANGED <<call, arg, ret, cacheVars, now, server, response>>

\* The second call: arg and ret pair the first call's disk and value with
\* this call's.
CallGetConversationsFingerprintAgain ==
  /\ call = "getConversationsFingerprint"
  /\ \E listing \in ListingOrders :
       /\ call' = "getConversationsFingerprint twice"
       /\ arg' = <<arg, disk>>
       /\ ret' = <<ret, getConversationsFingerprint(disk, listing)>>
  /\ UNCHANGED <<disk, cacheVars, now, server, response>>

InitFingerprint == disk = EmptyDisk /\ InitIdle

NextFingerprint ==
  \/ ChangeFile
  \/ DeleteFile
  \/ CallGetConversationsFingerprint
  \/ CallGetConversationsFingerprintAgain

SpecFingerprint == InitFingerprint /\ [][NextFingerprint]_vars

-----------------------------------------------------------------------------
(* Properties of the fingerprint.                                           *)

\* The tracked files of a disk, each with its path, size and modification time.
TrackedFiles(d) ==
  {<<filePath, d[filePath].size, d[filePath].mtime>> :
     filePath \in DiscoveredFiles("getAllConversations", d)
                    \cup DiscoveredFiles("getCodexConversations", d)
                    \cup DiscoveredFiles("getCursorConversations", d)}

\* C12: two calls of getConversationsFingerprint return the same value when
\* the tracked files and their paths, sizes and modification times are the
\* same at both calls, and different values when a tracked file was added,
\* removed, resized or touched in between.
C12_FingerprintTracksFiles ==
  call = "getConversationsFingerprint twice" =>
    ((ret[1] = ret[2]) <=> (TrackedFiles(arg[1]) = TrackedFiles(arg[2])))

-----------------------------------------------------------------------------
(* generateSummary applied to a whole collection.                           *)

\* Collections handed to generateSummary: the inputs of the tool, task and
\* prompt passes, and single conversations of every turn count.
SummaryCollections ==
  ToolCollections \cup TaskCollections \cup PromptCollections
    \cup {<<TurnConversation(t, a)>> : t \in 0..MaxTurns, a \in BOOLEAN}

CallGenerateSummary ==
  \E conversations \in SummaryCollections :
    /\ Applied("generateSummary", conversations,
               IF SummaryThrows(conversations) THEN [threw |-> "TypeError"]
               ELSE generateSummary(conversations))
    /\ UNCHANGED <<disk, cacheVars, now, server, response>>

SpecSummary == InitAnalyzer /\ [][CallGenerateSummary]_vars

\* The call returned a summary (it did not throw).
Returned(name) == call = name /\ "threw" \notin DOMAIN ret

\* The dates of a list of per-day entries are strictly ascending.
Chronological(byDay) ==
  \A i \in 1..Len(byDay) : \A j \in 1..Len(byDay) :
    i < j => StringCompare(byDay[i].date, byDay[j].date) = -1

\* C13: the object returned by generateSummary holds every field of the wire
\* contract: overview, toolUsage.overall and toolUsage.byProject,
\* taskPatterns, projectActivity, the three promptingPatterns.distribution
\* buckets, the four conversationFlows.distribution buckets, toolSequences,
\* and timeline.byDay, a list of per-day entries in chronological order.
C13_SummaryHasWireContract ==
  Returned("generateSummary") =>
    /\ {"overview", "toolUsage", "taskPatterns", "projectActivity",
        "promptingPatterns", "conversationFlows", "toolSequences"}
         \subseteq DOMAIN ret
    /\ {"overall", "byProject"} \subseteq DOMAIN ret.toolUsage
    /\ DOMAIN ret.promptingPatterns.distribution = {"short", "medium", "long"}
    /\ DOMAIN ret.conversationFlows.distribution =
         {"singleTurn", "shortConversations", "mediumConversations",
          "longConversations"}
    /\ "timeline" \in DOMAIN ret
    /\ "byDay" \in DOMAIN ret.timeline
    /\ Chronological(ret.timeline.byDay)

\* The fields generateSummary does return.
C13_ReturnedFields ==
  Returned("generateSummary") =>
    DOMAIN ret = {"overview", "toolUsage", "conversationMetrics", "taskPatterns",
                  "projectActivity", "recommendations", "promptingPatterns",
                  "conversationFlows", "toolSequences"}

-----------------------------------------------------------------------------
(* Conversation ids over directory layouts that repeat a file name.         *)

CodexNoMeta == JsonlFile(1000, 50, <<CodexText(60, "user", StringContent("hi"))>>)

\* Files whose names repeat below one root: the same session file name in two
\* Claude projects, a top-level file named like a subagent run, the same
\* rollout name in two Codex date directories, two rollouts carrying the same
\* session id, the same transcript name in two Cursor projects.
IdWrites ==
  {[path |-> ClaudeSession1, file |-> ClaudeChat],
   [path |-> PROJECTS_DIR \o <<"p2", "s1.jsonl">>, file |-> ClaudeSummaryOnly],
   [path |-> ClaudeSubagent, file |-> ClaudeSummaryOnly],
   [path |-> PROJECTS_DIR \o <<"p1", "s1__agent-a1.jsonl">>, file |-> ClaudeSummaryOnly],
   [path |-> CodexRollout1, file |-> CodexNoMeta],
   [path |-> CODEX_SESSIONS_DIR \o <<"2027", "rollout-1.jsonl">>, file |-> CodexNoMeta],
   [path |-> CodexRollout2, file |-> JsonlFile(2000, 80, <<SessionMeta>>)],
   [path |-> CODEX_SESSIONS_DIR \o <<"2027", "rollout-3.jsonl">>,
    file |-> JsonlFile(3000, 80, <<SessionMeta>>)],
   [path |-> CursorTranscript1, file |-> TextFile(1000, "user:\nhi")],
   [path |-> CursorTranscript2, file |-> TextFile(2000, "user:\nhi")],
   [path |-> CURSOR_PROJECTS_DIR \o <<"web", "agent-transcripts", "t1.txt">>,
    file |-> TextFile(3000, "user:\nhi")]}

IdDisks == {MkDisk(entries) : entries \in SUBSET IdWrites}

CallGetAllConversationsBySource ==
  \E listing \in ListingOrders :
    /\ Applied("getAllConversationsBySource", disk,
               getAllConversationsBySource(disk, listing))
    /\ UNCHANGED <<disk, cacheVars, now, server, response>>

InitIds == disk \in IdDisks /\ InitIdle

SpecIds == InitIds /\ [][CallGetAllConversationsBySource]_vars

\* The conversation ids of a list are pairwise different.
IdsDistinct(conversations) ==
  \A i \in 1..Len(conversations) : \A j \in 1..Len(conversations) :
    i # j => conversations[i].conversationId # conversations[j].conversationId

\* C14: within the conversations returned for one source (Claude with its
\* subagent runs, Codex, Cursor) no two conversations have the same
\* conversationId, whatever the layout and the file names below the root.
C14_ConversationIdsUnique ==
  call = "getAllConversationsBySource" =>
    \A source \in DOMAIN ret : IdsDistinct(ret[source])

\* What the readers do guarantee: the conversations made from the files of
\* one directory have different ids.
C14_UniqueWithinOneDirectory ==
  call = "getAllConversationsBySource" =>
    \A source \in {"claude", "cursor"} :
      \A i \in 1..Len(ret[source]) : \A j \in 1..Len(ret[source]) :
        (/\ i # j
         /\ Len(ret[source][i].path) = Len(ret[source][j].path)
         /\ SubSeq(ret[source][i].path, 1, Len(ret[source][i].path) - 1)
              = SubSeq(ret[source][j].path, 1, Len(ret[source][j].path) - 1))
          => ret[source][i].conversationId # ret[source][j].conversationId

-----------------------------------------------------------------------------
(* Scans over a disk one of whose directories cannot be listed: readdirSync *)
(* of that directory throws EACCES.                                         *)

\* The directories of the disk.
AllDirectories(d) ==
  UNION {{SubSeq(p, 1, k) : k \in 1..(Len(p) - 1)} : p \in DOMAIN d}

\* walk(dirPath) lists rootDir and every directory below it, outside any
\* try block: the first readdirSync that throws ends walkFilesRecursively.
WalkThrows(d, rootDir, unlistable) ==
  /\ existsSync(d, rootDir)
  /\ \E dir \in AllDirectories(d) \cap unlistable : dir = rootDir \/ IsUnder(rootDir, dir)

\* getAllConversations lists the projects directory, every project
\* directory and every existing <session>/subagents directory, outside any
\* try block.
ClaudeScanThrows(d, unlistable) ==
  /\ existsSync(d, PROJECTS_DIR)
  /\ \/ PROJECTS_DIR \in unlistable
     \/ \E dir \in AllDirectories(d) \cap unlistable :
          \/ Len(dir) = Len(PROJECTS_DIR) + 1 /\ IsUnder(PROJECTS_DIR, dir)
          \/ /\ Len(dir) = Len(PROJECTS_DIR) + 3
             /\ IsUnder(PROJECTS_DIR, dir)
             /\ dir[Len(dir)] = "subagents"

ScanThrows(d, unlistable) ==
  \/ ClaudeScanThrows(d, unlistable)
  \/ WalkThrows(d, CODEX_SESSIONS_DIR, unlistable)
  \/ WalkThrows(d, CURSOR_PROJECTS_DIR, unlistable)

CallGetAllConversationsBySourceUnlistable ==
  \E listing \in ListingOrders :
    \E unlistable \in {{}} \cup {{dir} : dir \in AllDirectories(disk)} :
      /\ Applied("getAllConversationsBySource over unlistable",
                 [disk |-> disk, unlistable |-> unlistable],
                 IF ScanThrows(disk, unlistable) THEN [threw |-> "EACCES"]
                 ELSE getAllConversationsBySource(disk, listing))
      /\ UNCHANGED <<disk, cacheVars, now, server, response>>

SpecFaults == InitReaders /\ [][CallGetAllConversationsBySourceUnlistable]_vars

SourceRoot(source) ==
  IF source = "claude" THEN PROJECTS_DIR
  ELSE IF source = "codex" THEN CODEX_SESSIONS_DIR ELSE CURSOR_PROJECTS_DIR

\* The paths of the conversations of a list.
PathsOf(conversations) == {conversations[i].path : i \in 1..Len(conversations)}

\* C15: a failure to read a file or to list a directory never makes
\* getAllConversationsBySource raise: no conversation is made of a file that
\* cannot be read, every file that yields a conversation on the same disk
\* without the failing directory still yields it unless it lies below that
\* directory, and a source whose root directory is missing yields an empty
\* list.
C15_ScanToleratesFailures ==
  call = "getAllConversationsBySource over unlistable" =>
    /\ "threw" \notin DOMAIN ret
    /\ \A source \in DOMAIN ret :
         /\ \A p \in PathsOf(ret[source]) : arg.disk[p].readable
         /\ \A p \in PathsOf(getAllConversationsBySource(arg.disk, "ascending")[source]) :
              (\A dir \in arg.unlistable : ~IsUnder(dir, p))
                => p \in PathsOf(ret[source])
         /\ ~existsSync(arg.disk, SourceRoot(source)) => ret[source] = <<>>

\* What the readers do guarantee: a scan that meets no unlistable directory
\* returns, and a source whose root directory is missing yields an empty
\* list.
C15_ReturnsWhenEveryDirectoryListed ==
  call = "getAllConversationsBySource over unlistable" =>
    /\ arg.unlistable = {} => "threw" \notin DOMAIN ret
    /\ "threw" \notin DOMAIN ret =>
         \A source \in DOMAIN ret :
           ~existsSync(arg.disk, SourceRoot(source)) => ret[source] = <<>>

-----------------------------------------------------------------------------
(* generateSummary of the empty collection.                                 *)

FlowBuckets ==
  {"singleTurn", "shortConversations", "mediumConversations", "longConversations"}

PromptBuckets == {"short", "medium", "long"}

\* Every count, average and percentage of a summary outside the flow
\* percentages is the number 0, and nothing is listed.
ZeroOutsideFlowPercentages(summary) ==
  /\ \A field \in DOMAIN summary.overview : summary.overview[field] = 0
  /\ \A group \in DOMAIN summary.taskPatterns : summary.taskPatterns[group] = 0
  /\ summary.promptingPatterns.totalPrompts = 0
  /\ summary.promptingPatterns.avgLength = 0
  /\ \A bucket \in PromptBuckets :
       /\ summary.promptingPatterns.distribution[bucket].count = 0
       /\ summary.promptingPatterns.distribution[bucket].percentage = 0
  /\ summary.conversationFlows.avgTurnsPerConversation = 0
  /\ \A bucket \in FlowBuckets :
       summary.conversationFlows.distribution[bucket].count = 0
  /\ DOMAIN summary.toolUsage.overall = {}
  /\ DOMAIN summary.toolUsage.byProject = {}
  /\ DOMAIN summary.projectActivity = {}
  /\ summary.conversationMetrics = <<>>
  /\ summary.toolSequences = <<>>
  /\ summary.recommendations = <<>>

\* C16: for the empty collection generateSummary returns, and every count,
\* average and percentage of the summary is the number 0 (none is NaN or
\* undefined) and the recommendation list is empty.
C16_EmptyCollectionAllZero ==
  call = "generateSummary" /\ arg = <<>> =>
    /\ Returned("generateSummary")
    /\ ZeroOutsideFlowPercentages(ret)
    /\ \A bucket \in FlowBuckets :
         ret.conversationFlows.distribution[bucket].percentage = 0

\* What generateSummary does return for the empty collection: zeros and
\* empty lists, except the four flow percentages, which are NaN.
C16_EmptyCollectionFlowPercentagesNaN ==
  call = "generateSummary" /\ arg = <<>> =>
    /\ Returned("generateSummary")
    /\ ZeroOutsideFlowPercentages(ret)
    /\ \A bucket \in FlowBuckets :
         ret.conversationFlows.distribution[bucket].percentage = NaN

-----------------------------------------------------------------------------
(* loadConversations applied directly, with and without force, while files  *)
(* appear and disappear.                                                    *)

\* The values loadConversations may assign.
CachedValues ==
  [conversations |-> cachedConversations,
   conversationsBySource |-> cachedConversationsBySource,
   analytics |-> cachedAnalytics,
   analyticsBySource |-> cachedAnalyticsBySource,
   schemaAll |-> cachedSchemaAll,
   schemaBySource |-> cachedSchemaBySource,
   fingerprint |-> cachedFingerprint,
   lastLoadTime |-> lastLoadTime]

\* loadConversations({ force }): arg records the option, whether the
\* fingerprint on disk equalled the cached one and the cache before the
\* call, ret the value returned or the exception thrown.
CallLoadConversations ==
  \E force \in BOOLEAN :
    \E read \in DiskReads :
      \E attempt \in {LoadAttempt(force, read)} :
        /\ Loads(attempt)
        /\ call' = "loadConversations"
        /\ arg' = [force |-> force,
                   fresh |-> cachedFingerprint = read.currentFingerprint,
                   before |-> CachedValues]
        /\ ret' = IF attempt.outcome = "threw" THEN [threw |-> "TypeError"]
                  ELSE [value |-> attempt.outcome = "loaded"]
        /\ UNCHANGED <<disk, server, response>>

NextLoad ==
  \/ WriteFile
  \/ DeleteFile
  \/ CallLoadConversations

SpecLoad == InitServer /\ [][NextLoad]_vars

\* C17: loadConversations called without force while the fingerprint on disk
\* equals cachedFingerprint returns false and leaves every cached value
\* unchanged; called with force it assigns all of them anew and returns true,
\* even when the fingerprint is unchanged.
C17_ForceRebuildsFreshKeeps ==
  call = "loadConversations" =>
    /\ ~arg.force /\ arg.fresh =>
         ret = [value |-> FALSE] /\ CachedValues = arg.before
    /\ arg.force =>
         /\ ret = [value |-> TRUE]
         /\ \A field \in DOMAIN generation : generation[field] = now

\* What loadConversations does guarantee: the fresh call changes nothing,
\* and a forced call that returns has assigned every cached value.
C17_ForceRebuildsUnlessThrown ==
  call = "loadConversations" =>
    /\ ~arg.force /\ arg.fresh =>
         ret = [value |-> FALSE] /\ CachedValues = arg.before
    /\ arg.force /\ "value" \in DOMAIN ret =>
         /\ ret.value
         /\ \A field \in DOMAIN generation : generation[field] = now

-----------------------------------------------------------------------------
(* Requests behind ensureConversationDataFresh.                             *)

\* The response was sent by a handler behind ensureConversationDataFresh
\* (POST /api/reload, whose body carries `success`, is not behind it).
AnsweredBehindMiddleware ==
  response # Null /\ response.status = 200 /\ "success" \notin DOMAIN response.body

\* The cached values the handler of a response has read: /api/health reads
\* the conversations and lastLoadTime, /api/analytics/summary the analytics.
FieldsRead(body) ==
  IF "status" \in DOMAIN body
  THEN {"conversations", "conversationsBySource", "lastLoadTime"}
  ELSE {"analytics", "analyticsBySource"}

\* C18: a handler behind ensureConversationDataFresh computes its response
\* only from cached values built by a load that observed the fingerprint the
\* request observed when it started (the handler runs after
\* loadConversations has returned, so that fingerprint is cachedFingerprint:
\* either found equal or just assigned); a rebuild that raises is answered
\* with status 500.
C18_HandlersReadObservedFingerprint ==
  AnsweredBehindMiddleware =>
    \A field \in FieldsRead(response.body) : builtFrom[field] = cachedFingerprint

\* A request whose rebuild raises is answered with status 500: a step of the
\* listening server that assigns the conversations but not the fingerprint
\* ends with a failure response.
C18_RaisedRebuildAnswered500 ==
  [][(/\ server = "listening"
      /\ disk' = disk
      /\ generation'.conversations # generation.conversations
      /\ generation'.fingerprint = generation.fingerprint)
       => response'.status = 500]_vars

\* A request answered with status 200 leaves the cache on the fingerprint of
\* the disk as the request found it.
C18_AnsweredOnCurrentFingerprint ==
  [][(/\ server = "listening"
      /\ disk' = disk
      /\ response' # response
      /\ response'.status = 200)
       => cachedFingerprint' = getConversationsFingerprint(disk, "ascending")]_vars

-----------------------------------------------------------------------------
(* generateRecommendations on what the passes of generateSummary compute    *)
(* for collections whose shares lie around the thresholds of the rules.     *)

MaxMixedConversations == 23   \* conversations in one collection of long and short ones
MaxMixedPrompts == 42         \* prompts in one conversation of short and medium ones

\* k long conversations (16 user turns), one conversation holding `todo`
\* TodoWrite calls and no user turn, and one-turn conversations up to n.
LongMix(n, k, todo) ==
  [i \in 1..n |->
     IF i <= k THEN TurnConversation(16, FALSE)
     ELSE IF i = n
     THEN Conversation("c", "p1",
            <<Message("assistant", 1,
                      ArrayContent([j \in 1..todo |-> ToolUse("TodoWrite")]))>>)
     ELSE TurnConversation(1, FALSE)]

\* One conversation of k prompts of 10 characters and n - k of 60.
PromptMix(n, k) ==
  <<Conversation("c", "p1",
      [i \in 1..n |->
         Message("user", i, StringContent(Repeat("x", IF i <= k THEN 10 ELSE 60)))])>>

\* The numbers of parts out of n within one tenth of n around tenths / 10.
Around(n, tenths) == {k \in 0..n : 10 * k - tenths * n \in -10..10}

ThresholdCollections ==
  {LongMix(n, k, todo) : <<n, k>> \in UNION {{<<m, j>> : j \in Around(m, 3) \ {m}} :
                                              m \in 1..MaxMixedConversations},
                         todo \in {49, 50}}
    \cup {PromptMix(n, k) : <<n, k>> \in UNION {{<<m, j>> : j \in Around(m, 4)} :
                                                 m \in 1..MaxMixedPrompts}}

\* The calls of generateSummary up to generateRecommendations.
CallGenerateRecommendationsOfSummary ==
  \E conversations \in ThresholdCollections :
    \E toolUsage \in {analyzeToolUsage(conversations)},
       taskPatterns \in {analyzeTaskPatterns(conversations)},
       promptingPatterns \in {analyzePromptingPatterns(conversations)},
       conversationFlows \in {analyzeConversationFlows(conversations)} :
      /\ Applied("generateRecommendations",
                 [conversations |-> conversations, toolUsage |-> toolUsage,
                  taskPatterns |-> taskPatterns,
                  promptingPatterns |-> promptingPatterns,
                  conversationFlows |-> conversationFlows],
                 generateRecommendations(conversations, toolUsage, taskPatterns,
                                         promptingPatterns, conversationFlows))
      /\ UNCHANGED <<disk, cacheVars, now, server, response>>

SpecThresholds == InitAnalyzer /\ [][CallGenerateRecommendationsOfSummary]_vars

Titles(recommendations) == {recommendations[i].title : i \in 1..Len(recommendations)}

\* C19: the returned list holds 'Track Complex Tasks with TodoWrite' exactly
\* when more than 30% of the conversations are long (16 or more user turns)
\* and TodoWrite was used fewer than 50 times.
C19_TodoWriteRule ==
  call = "generateRecommendations" =>
    ("Track Complex Tasks with TodoWrite" \in Titles(ret)
       <=> /\ 100 * arg.conversationFlows.distribution.longConversations.count
                > 30 * Len(arg.conversations)
           /\ CountOf(arg.toolUsage.overall, "TodoWrite") < 50)

\* What the rule does test: the share of long conversations rounded to a
\* whole percentage.
C19_TodoWriteRuleOnRoundedShare ==
  call = "generateRecommendations" =>
    ("Track Complex Tasks with TodoWrite" \in Titles(ret)
       <=> /\ JsGreater(Percentage(arg.conversationFlows.distribution.longConversations.count,
                                   Len(arg.conversations)), 30)
           /\ CountOf(arg.toolUsage.overall, "TodoWrite") < 50)

\* C20: 'Provide More Context in Prompts' is generated (before the cut to
\* five) exactly when more than 40% of the counted prompts are short (under
\* 50 characters).
C20_ShortPromptRule ==
  call = "generateRecommendations" =>
    ("Provide More Context in Prompts"
       \in Titles(FiredRecommendations(arg.conversations, arg.toolUsage,
                                       arg.taskPatterns, arg.promptingPatterns,
                                       arg.conversationFlows))
       <=> 100 * arg.promptingPatterns.distribution.short.count
             > 40 * arg.promptingPatterns.totalPrompts)

\* What the rule does test: the share of short prompts rounded to a whole
\* percentage.
C20_ShortPromptRuleOnRoundedShare ==
  call = "generateRecommendations" =>
    ("Provide More Context in Prompts"
       \in Titles(FiredRecommendations(arg.conversations, arg.toolUsage,
                                       arg.taskPatterns, arg.promptingPatterns,
                                       arg.conversationFlows))
       <=> /\ arg.promptingPatterns.totalPrompts > 0
           /\ Percentage(arg.promptingPatterns.distribution.short.count,
                         arg.promptingPatterns.totalPrompts) > 40)

-----------------------------------------------------------------------------
(* The rule 'Request Parallel Operations'.                                  *)

\* The assistant messages of a collection that hold at least one tool_use
\* item, as <<conversation, message>> positions.
ToolInvokingMessages(conversations) ==
  {<<c, m>> \in UNION {{<<c, m>> : m \in 1..Len(conversations[c].messages)} :
                       c \in 1..Len(conversations)} :
     /\ IsAssistantArray(conversations[c].messages[m])
     /\ \E i \in 1..Len(conversations[c].messages[m].message.content.items) :
          conversations[c].messages[m].message.content.items[i].type = "tool_use"}

\* The tool_use items of a collection, as <<conversation, message, item>>.
ToolInvocations(conversations) ==
  UNION {{<<p[1], p[2], i>> :
            i \in {j \in 1..Len(conversations[p[1]].messages[p[2]].message.content.items) :
                     conversations[p[1]].messages[p[2]].message.content.items[j].type
                       = "tool_use"}} :
         p \in ToolInvokingMessages(conversations)}

\* C21: 'Request Parallel Operations' is produced exactly when the tool_use
\* items of the whole collection divided by the assistant messages holding
\* at least one of them is below 1.5 and Read was used more than 100 times
\* or Grep more than 50 times; a conversation without such a message does
\* not change the average.
C21_ParallelRuleOnOverallAverage ==
  call = "generateRecommendations" /\ ToolInvokingMessages(arg.conversations) # {} =>
    ("Request Parallel Operations" \in Titles(ret)
       <=> /\ 2 * Cardinality(ToolInvocations(arg.conversations))
                < 3 * Cardinality(ToolInvokingMessages(arg.conversations))
           /\ \/ CountOf(arg.toolUsage.overall, "Read") > 100
              \/ CountOf(arg.toolUsage.overall, "Grep") > 50)

\* What the rule does test: the mean over all conversations of the
\* per-conversation averages, a conversation without a tool-invoking message
\* counting as 0.
C21_ParallelRuleOnMeanOfAverages ==
  call = "generateRecommendations" =>
    ("Request Parallel Operations" \in Titles(ret)
       <=> /\ AvgToolsPerMessageBelowThreshold(arg.conversations)
           /\ \/ CountOf(arg.toolUsage.overall, "Read") > 100
              \/ CountOf(arg.toolUsage.overall, "Grep") > 50)

-----------------------------------------------------------------------------
(* The ten most frequent tool pairs.                                        *)

\* The positions <<conversation, index>> at which a tool is followed by
\* another tool of the same conversation, and the pair found there.
PairPositions(conversations) ==
  UNION {{<<c, i>> : i \in 1..(Len(NamedToolsOf(conversations[c])) - 1)} :
         c \in 1..Len(conversations)}

PairAt(conversations, p) ==
  NamedToolsOf(conversations[p[1]])[p[2]] \o " → "
    \o NamedToolsOf(conversations[p[1]])[p[2] + 1]

PositionsOf(conversations, pair) ==
  {p \in PairPositions(conversations) : PairAt(conversations, p) = pair}

ScannedBefore(p, q) == p[1] < q[1] \/ (p[1] = q[1] /\ p[2] < q[2])

\* pair a is first encountered before pair b
FirstSeenBefore(conversations, a, b) ==
  \E p \in PositionsOf(conversations, a) :
    \A q \in PositionsOf(conversations, b) : ScannedBefore(p, q)

\* C22: analyzeToolSequences returns at most 10 pairs, each once and with
\* its total count, by count descending, pairs of equal count in the order
\* in which the scan first encountered them; every pair left out has no
\* higher count than a returned pair, and is left out only when ten are
\* returned.
C22_TopTenPairsInOrder ==
  call = "analyzeToolSequences" =>
    LET pairs == {PairAt(arg, p) : p \in PairPositions(arg)}
        returned == {ret[i].sequence : i \in 1..Len(ret)}
    IN /\ Len(ret) <= 10
       /\ returned \subseteq pairs
       /\ \A i \in 1..Len(ret) :
            ret[i].count = Cardinality(PositionsOf(arg, ret[i].sequence))
       /\ \A i \in 1..Len(ret) : \A j \in 1..Len(ret) :
            i < j =>
              \/ ret[i].count > ret[j].count
              \/ /\ ret[i].count = ret[j].count
                 /\ FirstSeenBefore(arg, ret[i].sequence, ret[j].sequence)
       /\ \A pair \in pairs \ returned :
            /\ Len(ret) = 10
            /\ \A i \in 1..Len(ret) :
                 ret[i].count >= Cardinality(PositionsOf(arg, pair))

\* More than ten different pairs were counted, pairs of equal count are
\* returned in an order that is not the alphabetical one, and a pair is
\* left out.
C22_Witness ==
  /\ call = "analyzeToolSequences"
  /\ Cardinality({PairAt(arg, p) : p \in PairPositions(arg)}) > 10
  /\ Len(ret) = 10
  /\ ret[1] = [sequence |-> "D → C", count |-> 3]
  /\ ret[2] = [sequence |-> "C → D", count |-> 2]
  /\ ret[3] = [sequence |-> "A → B", count |-> 1]
  /\ ret[5] = [sequence |-> "D → A", count |-> 1]
  /\ ret[6] = [sequence |-> "A → C", count |-> 1]

\* ---------------------------------------------------------------------------
\* C23  parseCursorTranscript: tool markers and residual text
\* ---------------------------------------------------------------------------

\* The tool names of the tool_use messages of a conversation, in message order.
ToolUseNames(conversation) ==
  MapSeq(FilterSeq(conversation.messages,
                   LAMBDA m : m.message.content.kind = "array"),
         LAMBDA m : m.message.content.items[1].name)

\* The free texts of a conversation's messages.
FreeTexts(conversation) ==
  {conversation.messages[m].message.content.text :
     m \in {i \in 1..Len(conversation.messages) :
              conversation.messages[i].message.content.kind = "string"}}

\* The markers of the assistant blocks of a transcript, in file order.
MarkersOf(text) ==
  Flatten(MapSeq(parseCursorTranscriptBlocks(text),
                 LAMBDA block : IF block.role = "assistant"
                                THEN ToolCallMatches(normalizeCursorText(block.text), 1)
                                ELSE <<>>))

\* C23: every Cursor conversation holds one assistant tool_use message per
\* "[Tool call] <name>" marker of its assistant blocks, in marker order, and
\* none for user blocks; no free text it holds has a line that starts with a
\* tool-call or tool-result bracket, and no free text still holds a marker
\* that was extracted as a tool invocation.
C23_MarkersLeaveResidualText ==
  call = "getCursorConversations" =>
    \A c \in 1..Len(ret) :
      /\ ToolUseNames(ret[c]) = MarkersOf(arg[ret[c].path].text)
      /\ \A text \in FreeTexts(ret[c]) :
           /\ \A l \in 1..Len(SplitLines(text)) :
                /\ ~StartsWith(SplitLines(text)[l], "[Tool call]")
                /\ ~StartsWith(SplitLines(text)[l], "[Tool result]")
           /\ ToolCallMatches(text, 1) = <<>>

\* What the code keeps: the tool_use messages follow the markers, and no line
\* of a free text starts with a tool-call or tool-result bracket.
C23_BracketLinesLeaveResidualText ==
  call = "getCursorConversations" =>
    \A c \in 1..Len(ret) :
      /\ ToolUseNames(ret[c]) = MarkersOf(arg[ret[c].path].text)
      /\ \A text \in FreeTexts(ret[c]) : \A l \in 1..Len(SplitLines(text)) :
           /\ ~StartsWith(SplitLines(text)[l], "[Tool call]")
           /\ ~StartsWith(SplitLines(text)[l], "[Tool result]")

\* ---------------------------------------------------------------------------
\* C24  parseCursorTranscriptBlocks: role blocks between sentinel lines
\* ---------------------------------------------------------------------------

MaxLines == 4

\* The lines transcripts are made of: sentinels (bare and padded), a padded
\* text line, a text line that only starts like a sentinel, a blank line.
TranscriptLines == {"user:", "assistant:", " user: ", "  a ", "user: hi", ""}

TranscriptContents == {JoinLines(lines) : lines \in SeqsUpTo(TranscriptLines, MaxLines)}

CallParseCursorTranscriptBlocks ==
  \E content \in TranscriptContents :
    /\ Applied("parseCursorTranscriptBlocks", content, parseCursorTranscriptBlocks(content))
    /\ UNCHANGED <<disk, cacheVars, now, server, response>>

SpecBlocks == InitAnalyzer /\ [][CallParseCursorTranscriptBlocks]_vars

IsSentinel(line) == Trim(line) \in {"user:", "assistant:"}

\* The lines after the sentinel at position i, up to the next sentinel or the
\* end of the file.
LinesAfterSentinel(lines, i) ==
  LET later == {j \in (i + 1)..Len(lines) : IsSentinel(lines[j])}
  IN SubSeq(lines, i + 1, IF later = {} THEN Len(lines) ELSE Min(later) - 1)

RECURSIVE BlocksBySentinel(_, _, _)
\* One block per sentinel from position i on, in file order, unless the lines
\* after the sentinel are blank; the text is these lines joined, trimmed or not.
BlocksBySentinel(lines, i, trimmed) ==
  IF i > Len(lines) THEN <<>>
  ELSE IF ~IsSentinel(lines[i]) THEN BlocksBySentinel(lines, i + 1, trimmed)
  ELSE LET between == JoinLines(LinesAfterSentinel(lines, i))
           role == IF Trim(lines[i]) = "user:" THEN "user" ELSE "assistant"
       IN (IF Trim(between) = "" THEN <<>>
           ELSE <<[role |-> role, text |-> IF trimmed THEN Trim(between) ELSE between]>>)
            \o BlocksBySentinel(lines, i + 1, trimmed)

\* C24 as stated: the blocks are, in file order, one per sentinel line whose
\* following lines are not blank, with the sentinel's role and with exactly
\* the lines up to the next sentinel or the end of the file as text.
C24_BlockTextIsExactlyTheLines ==
  call = "parseCursorTranscriptBlocks" =>
    ret = BlocksBySentinel(SplitLines(arg), 1, FALSE)

\* C24 amended: the text of a block is the lines between the sentinels joined
\* by newlines and trimmed of leading and trailing white space; lines before
\* the first sentinel are in no block, no line of a block's text is a
\* sentinel, and no block has a blank text.
C24_BlockTextIsTheTrimmedLines ==
  call = "parseCursorTranscriptBlocks" =>
    /\ ret = BlocksBySentinel(SplitLines(arg), 1, TRUE)
    /\ \A b \in 1..Len(ret) :
         /\ Trim(ret[b].text) # ""
         /\ \A l \in 1..Len(SplitLines(ret[b].text)) : ~IsSentinel(SplitLines(ret[b].text)[l])

C24_Witness ==
  /\ call = "parseCursorTranscriptBlocks"
  /\ arg = " user: \n  a \nassistant:\nuser: hi"
  /\ ret = <<[role |-> "user", text |-> "a"], [role |-> "assistant", text |-> "user: hi"]>>

\* ---------------------------------------------------------------------------
\* C25  parseCodexSession: which records become messages, and the tallies
\* ---------------------------------------------------------------------------

MaxRecords == 2

CodexCall(type, name) ==
  JsonLine(CodexEntry("response_item", 70, Payload([type |-> type, name |-> name])))

\* An event record whose payload looks like a message.
CodexEventLikeMessage ==
  JsonLine(CodexEntry("event_msg", 55,
             Payload([type |-> "message", role |-> "user",
                      content |-> StringContent("hidden"), name |-> "shell"])))

\* The lines Codex sessions are made of.
CodexRecords ==
  {SessionMeta,
   CodexEventLikeMessage,
   JsonLine(CodexEntry("turn_context", 56, Payload([type |-> "function_call", name |-> "shell"]))),
   JsonLine(CodexEntry("", NoTimestamp, Payload([type |-> "message", role |-> "assistant",
                                                 content |-> StringContent("untyped")]))),
   CodexText(60, "user", StringContent(" add a test ")),
   CodexText(NoTimestamp, "developer", ArrayContent(<<CodexItem("input_text", "rules")>>)),
   CodexText(80, "assistant", StringContent("  ")),
   CodexText(90, "assistant", ArrayContent(<<CodexItem("output_text", "done"),
                                             CodexItem("none", ""),
                                             CodexItem("text", "ok")>>)),
   CodexCall("function_call", "shell"),
   CodexCall("custom_tool_call", "apply_patch"),
   CodexCall("custom_tool_call", ""),
   CodexCall("reasoning", "think"),
   GarbageLine}

CodexSessionDisks ==
  {MkDisk({[path |-> CodexRollout1, file |-> JsonlFile(1000, 10 * Len(lines), lines)]}) :
     lines \in SeqsUpTo(CodexRecords, MaxRecords)}

CallParseCodexSession ==
  \E d \in CodexSessionDisks :
    /\ Applied("parseCodexSession", d, parseCodexSession(d, CodexRollout1))
    /\ UNCHANGED <<disk, cacheVars, now, server, response>>

SpecCodex == InitAnalyzer /\ [][CallParseCodexSession]_vars

\* The records of the session file of a disk that parsed, in file order.
ParsedRecords(d) ==
  MapSeq(FilterSeq(d[CodexRollout1].lines, LAMBDA line : line.kind = "json"),
         LAMBDA line : line.value)

IsCodexTextRecord(entry) ==
  /\ entry.type = "response_item"
  /\ entry.payload.type = "message"
  /\ extractTextFromCodexContent(entry.payload.content) # ""

IsCodexToolRecord(entry) ==
  /\ entry.type = "response_item"
  /\ entry.payload.type \in {"function_call", "custom_tool_call"}
  /\ entry.payload.name # ""

\* The message is the one the claim gives to the record.
IsMessageOfRecord(message, entry) ==
  IF IsCodexTextRecord(entry)
  THEN /\ message.type = (IF entry.payload.role \in {"user", "assistant"}
                          THEN entry.payload.role ELSE "system")
       /\ message.message.content
            = StringContent(extractTextFromCodexContent(entry.payload.content))
  ELSE /\ message.type = "assistant"
       /\ message.message.content = ArrayContent(<<ToolUse(entry.payload.name)>>)

\* C25: the messages of a parsed Codex session are, in file order, one per
\* response_item record that is a message with a non-empty text (role user or
\* assistant kept, any other mapped to system) or a named function_call or
\* custom_tool_call (one assistant message with one tool_use item); no other
\* record makes a message (a session without any such record holds the one
\* synthetic system message); recordTypeCounts counts every parsed record
\* once under its type, so the counts sum to the number of parsed records.
C25_MessagesOnlyFromResponseItems ==
  call = "parseCodexSession" /\ ret # Null =>
    LET entries == ParsedRecords(arg)
        makers == {i \in 1..Len(entries) :
                     IsCodexTextRecord(entries[i]) \/ IsCodexToolRecord(entries[i])}
        counts == ret.metadata.recordTypeCounts
        TypeKey(entry) == IF entry.type = "" THEN "undefined" ELSE entry.type
    IN /\ IF makers = {}
          THEN ret.messages = <<Message("system", arg[CodexRollout1].mtime,
                                        StringContent("Session metadata only"))>>
          ELSE /\ Len(ret.messages) = Cardinality(makers)
               /\ \A i \in makers :
                    IsMessageOfRecord(ret.messages[Cardinality({j \in makers : j <= i})],
                                      entries[i])
       /\ DOMAIN counts = {TypeKey(entries[i]) : i \in 1..Len(entries)}
       /\ \A key \in DOMAIN counts :
            counts[key] = Cardinality({i \in 1..Len(entries) : TypeKey(entries[i]) = key})
       /\ SumSeq([i \in 1..Len(entries) |->
                    IF \A j \in 1..(i - 1) : TypeKey(entries[j]) # TypeKey(entries[i])
                    THEN counts[TypeKey(entries[i])] ELSE 0]) = Len(entries)

C25_Witness ==
  /\ call = "parseCodexSession"
  /\ arg[CodexRollout1].lines
       = <<CodexText(NoTimestamp, "developer", ArrayContent(<<CodexItem("input_text", "rules")>>)),
           CodexCall("custom_tool_call", "apply_patch")>>
  /\ ret # Null
  /\ ret.messages = <<Message("system", 1000, StringContent("rules")),
                      Message("assistant", 70, ArrayContent(<<ToolUse("apply_patch")>>))>>
  /\ ret.metadata.recordTypeCounts = ("response_item" :> 2)

\* ---------------------------------------------------------------------------
\* C26  parseJSONL: the records of the lines that parse
\* ---------------------------------------------------------------------------

MaxJsonLines == 3

JsonlLines ==
  {BlankLine, GarbageLine, FalsyLine,
   JsonLine(Message("user", 100, StringContent("hello there"))),
   JsonLine(Message("assistant", 200, ArrayContent(<<ToolUse("Read")>>)))}

\* One session file, readable or not; the path of the second session is missing.
JsonlDisks ==
  {MkDisk({[path |-> ClaudeSession1, file |-> file]}) :
     file \in UNION {{JsonlFile(1000, 10 * Len(lines), lines),
                      Unreadable(JsonlFile(1000, 10 * Len(lines), lines))} :
                       lines \in SeqsUpTo(JsonlLines, MaxJsonLines)}}

CallParseJSONL ==
  \E d \in JsonlDisks, filePath \in {ClaudeSession1, ClaudeSession2} :
    /\ Applied("parseJSONL", [disk |-> d, filePath |-> filePath], parseJSONL(d, filePath))
    /\ UNCHANGED <<disk, cacheVars, now, server, response>>

SpecJsonl == InitAnalyzer /\ [][CallParseJSONL]_vars

\* The values of the lines of the given kinds, in file order; none for a file
\* that is missing or cannot be read.
ValuesOfLines(d, filePath, kinds) ==
  IF filePath \notin DOMAIN d \/ ~d[filePath].readable THEN <<>>
  ELSE MapSeq(FilterSeq(d[filePath].lines, LAMBDA line : line.kind \in kinds),
              LAMBDA line : line.value)

\* C26: parseJSONL returns, in file order, exactly the values of the non-blank
\* lines that parse as JSON, and the empty list for a file that is missing or
\* cannot be read.
C26_EveryParsedLineReturned ==
  call = "parseJSONL" =>
    ret = ValuesOfLines(arg.disk, arg.filePath, {"json", "falsy"})

\* What the code keeps: the values of the lines that parse to a truthy value.
C26_EveryTruthyParsedLineReturned ==
  call = "parseJSONL" =>
    ret = ValuesOfLines(arg.disk, arg.filePath, {"json"})

\* ---------------------------------------------------------------------------
\* C27  The passes neither change their collection nor keep state
\* ---------------------------------------------------------------------------

PassNames ==
  {"analyzeToolUsage", "analyzeConversationMetrics", "analyzeTaskPatterns",
   "analyzePromptingPatterns", "analyzeConversationFlows", "analyzeToolSequences",
   "analyzeProjectActivity", "generateSummary", "createSourceSchema"}

\* What a call of the pass returns for the collection as it is when called.
\* No pass reads a module-level variable: analyzer and server keep none that
\* a pass reaches, so the collection is the only input.
PassResult(pass, conversations) ==
  CASE pass = "analyzeToolUsage" -> analyzeToolUsage(conversations)
    [] pass = "analyzeConversationMetrics" -> analyzeConversationMetrics(conversations)
    [] pass = "analyzeTaskPatterns" -> analyzeTaskPatterns(conversations)
    [] pass = "analyzePromptingPatterns" -> analyzePromptingPatterns(conversations)
    [] pass = "analyzeConversationFlows" -> analyzeConversationFlows(conversations)
    [] pass = "analyzeToolSequences" -> analyzeToolSequences(conversations)
    [] pass = "analyzeProjectActivity" -> analyzeProjectActivity(conversations)
    [] pass = "generateSummary" -> generateSummary(conversations)
    [] pass = "createSourceSchema" -> createSourceSchema("all", conversations)

\* The collection object as an in-place sort of the messages of every
\* conversation by analyzeProjectActivity would leave it.
CollectionAfterSortingInPlace(pass, conversations) ==
  IF pass = "analyzeProjectActivity"
  THEN MapSeq(conversations, LAMBDA conv :
                [conv EXCEPT !.messages =
                   StableSort(@, LAMBDA a, b : a.timestamp - b.timestamp)])
  ELSE conversations

\* The collection object as a call of the pass leaves it. The passes assign
\* only to objects they created themselves (their tallies, the timestamps
\* array that analyzeProjectActivity sorts, the entries array that
\* analyzeToolSequences sorts and slices); none assigns to a conversation, a
\* message or a content item.
CollectionAfter(pass, conversations) ==
  conversations

\* The conversations the passes are called on: read from a Cursor transcript
\* whose messages are out of timestamp order, and from a Codex session.
PassConversations ==
  {parseCursorTranscript(
     MkDisk({[path |-> CursorTranscript1,
              file |-> TextFile(1000, "assistant:\n[Tool call] Read\n[Tool call] Edit\nok\nuser:\nnext")]}),
     CursorTranscript1),
   parseCodexSession(
     MkDisk({[path |-> CodexRollout1,
              file |-> JsonlFile(1000, 100,
                         <<SessionMeta,
                           CodexText(60, "user", StringContent("fix the failing test")),
                           CodexCall("function_call", "shell"),
                           CodexCall("function_call", "shell")>>)]}),
     CodexRollout1)}

PassCollections == SeqsUpTo(PassConversations, 2)

\* arg is the caller's collection object, ret the collection as it was given
\* and the result of the latest call of every pass called so far.
InitPasses ==
  /\ disk = EmptyDisk
  /\ call = "none"
  /\ arg \in PassCollections
  /\ ret = [given |-> arg, results |-> EmptyMap]
  /\ InitCache
  /\ now = 0
  /\ server = "starting"
  /\ response = Null

CallPass ==
  \E pass \in PassNames :
    /\ call' = pass
    /\ ret' = [ret EXCEPT !.results = (pass :> PassResult(pass, arg)) @@ @]
    /\ arg' = CollectionAfter(pass, arg)
    /\ UNCHANGED <<disk, cacheVars, now, server, response>>

SpecPasses == InitPasses /\ [][CallPass]_vars

C27_SecondCallAgrees ==
  [][\A pass \in PassNames :
       call' = pass /\ pass \in DOMAIN ret.results
         => ret'.results[pass] = ret.results[pass]]_vars

C28_DurationNeverNegative ==
  call \in {"getCodexConversations", "getCursorConversations"} =>
    \A c \in 1..Len(ret) : analyzeConversationMetrics(ret)[c].duration >= 0

\* The same for the Codex reader alone, over sessions written in time order.
C28_CodexDurationNeverNegative ==
  call = "getCodexConversations" =>
    \A c \in 1..Len(ret) : analyzeConversationMetrics(ret)[c].duration >= 0

\* ---------------------------------------------------------------------------
\* C29  The two tool-use totals of a summary
\* ---------------------------------------------------------------------------

RECURSIVE SumOfCounts(_)
\* The sum of the counts of a tally.
SumOfCounts(counts) ==
  IF DOMAIN counts = {} THEN 0
  ELSE LET key == CHOOSE k \in DOMAIN counts : TRUE
       IN counts[key] + SumOfCounts([k \in DOMAIN counts \ {key} |-> counts[k]])

\* The tool_use items without a name in the assistant messages of a collection.
UnnamedToolUses(conversations) ==
  SumSeq(MapSeq(conversations, LAMBDA conv :
    SumSeq(MapSeq(FilterSeq(conv.messages, IsAssistantArray), LAMBDA msg :
      Len(FilterSeq(msg.message.content.items,
                    LAMBDA item : item.type = "tool_use" /\ item.name = ""))))))

\* C29: in every summary generateSummary returns, overview.totalToolUses is
\* the sum of the counts of toolUsage.overall.
C29_ToolTotalsAgree ==
  Returned("generateSummary") =>
    ret.overview.totalToolUses = SumOfCounts(ret.toolUsage.overall)

\* What the code keeps: the two totals differ by the tool_use items without a name.
C29_ToolTotalsDifferByUnnamed ==
  Returned("generateSummary") =>
    ret.overview.totalToolUses = SumOfCounts(ret.toolUsage.overall) + UnnamedToolUses(arg)

\* ---------------------------------------------------------------------------
\* C30  The 'all' generation is the three sources put together
\* ---------------------------------------------------------------------------

\* The sum over the three sources of a number taken from the summary of each.
SumOverSources(Pick(_)) ==
  Pick(cachedAnalyticsBySource["claude"]) + Pick(cachedAnalyticsBySource["codex"])
    + Pick(cachedAnalyticsBySource["cursor"])

\* loadConversations has returned true.
Loaded == call = "loadConversations" /\ ret = [value |-> TRUE]

C30_SummariesOfSourcesAddUp ==
  call = "getAllConversationsBySource" =>
    \E all \in {generateSummary(ret.claude \o ret.codex \o ret.cursor)} :
      \E claude \in {generateSummary(ret.claude)} :
        \E codex \in {generateSummary(ret.codex)} :
          \E cursor \in {generateSummary(ret.cursor)} :
            /\ all.overview.totalConversations
                 = claude.overview.totalConversations + codex.overview.totalConversations
                     + cursor.overview.totalConversations
            /\ all.overview.totalMessages
                 = claude.overview.totalMessages + codex.overview.totalMessages
                     + cursor.overview.totalMessages
            /\ all.overview.totalToolUses
                 = claude.overview.totalToolUses + codex.overview.totalToolUses
                     + cursor.overview.totalToolUses
            /\ \A tool \in DOMAIN all.toolUsage.overall :
                 all.toolUsage.overall[tool]
                   = CountOf(claude.toolUsage.overall, tool)
                       + CountOf(codex.toolUsage.overall, tool)
                       + CountOf(cursor.toolUsage.overall, tool)

====
